---- MODULE Spec2Model ----
\* The per-bucket rate-limit coordinator of lib/rest.py (Ratelimiter and
\* RestSession) and the gateway connection of snakecord/connection.py (frame
\* codec, receive state machine, upgrade handshake, heartbeat handler) as
\* state machines over asyncio's cooperative scheduling: every action is one
\* run of a task or callback between two suspension points.
EXTENDS Integers, Sequences, FiniteSets, TLC

\* ---------------------------------------------------------------- bounds
MaxReq == 2          \* submissions made by the user code, one bucket
MaxReqB == 2         \* submissions made by the user code, several buckets
MaxReqW == 4         \* submissions made by the user code, against the server
MaxFields == 2       \* fields of a JsonStructure
MaxOver == 1         \* payload lengths this far on either side of 125 and 0xFFFF
MaxExt == 2          \* the small lengths carried in length bytes
MaxReqC == 3         \* submissions made by the user code, one bucket, with cancellations
MaxTime == 1         \* the clock runs over 0..MaxTime
SrvLimit == 3        \* requests the server allows per window
MaxLen == 2          \* length of the short payloads
MaxFrames == 2       \* frames of a stream
MaxHello == 2        \* HELLO messages a connection receives
MaxAck == 2          \* HEARTBEAT_ACK messages a connection receives
MaxBeats == 6        \* HEARTBEAT_ACK messages of a gateway that acks every heartbeat
MaxDigits == 5       \* 30-bit digits of the integers a Snowflake is made from

\* float('inf'): the "unknown" value of limit, _remaining and _reset; larger
\* than every number the model reaches, and x - 1 keeps it (inf - 1 = inf).
Inf == 1000000

\* the largest payload length the second byte of a frame holds, and the
\* largest one that takes the 16-bit form
SmallLen == 125
ShortLen == 65535

\* WebsocketOpcode
CONT == 0
TEXT == 1
BINARY == 2
CLOSE == 8
PING == 9
PONG == 10

\* the bytes '\r', '\n', ' ', ':', '1' and '{'
CR == 13
LF == 10
Space == 32
Colon == 58
Digit == 49
Brace == 123

\* http.HTTPStatus.SWITCHING_PROTOCOLS
SWITCHING_PROTOCOLS == 101

\* ---------------------------------------------------------------- inputs
\* The routes the user code calls: method and path parameters
\* (get_channel / delete_channel with channel ids 1 and 2).
Routes ==
  << [meth |-> "GET", pp |-> ("channel_id" :> 1)],
     [meth |-> "GET", pp |-> ("channel_id" :> 2)],
     [meth |-> "DELETE", pp |-> ("channel_id" :> 1)] >>

\* Calls with other path parameters: a guild alone, a webhook alone, none,
\* and a channel with a parameter that is not part of the bucket.
OtherRoutes ==
  << [meth |-> "GET", pp |-> ("guild_id" :> 1)],
     [meth |-> "GET", pp |-> ("webhook_id" :> 1)],
     [meth |-> "GET", pp |-> <<>>],
     [meth |-> "GET", pp |-> ("channel_id" :> 1) @@ ("message_id" :> 1)] >>

AllRoutes == Routes \o OtherRoutes

\* An absent header is the empty set, a present one a singleton.
LimitHdrs == {{}, {2}}
RemainingHdrs == {{}, {0}, {1}}
ResetHdrs == {{}} \cup {{t} : t \in 1..MaxTime}
\* retry_after of a 429 body, in milliseconds
RetryAfters == {0, 1000}

\* Payload bytes: texts over '1' and '{', the short ones and one that takes
\* the 16-bit length form.
Alphabet == {Digit, Brace}
Texts == UNION {[1..m -> Alphabet] : m \in 0..MaxLen}
LongText == [i \in 1..(SmallLen + 1) |-> Digit]

\* what os.urandom(4) returns, or no mask
Masks == {<<0, 0, 0, 0>>, <<1, 2, 3, 4>>}
Masking == {[masked |-> FALSE, mask |-> <<>>]} \cup {[masked |-> TRUE, mask |-> m] : m \in Masks}

\* the arguments of create_frame: every flag setting for one frame, final
\* frames without reserved bits for the frames of a stream
AnyFrame ==
  [data : Texts \cup {LongText}, opcode : {TEXT, BINARY, PING},
   fin : BOOLEAN, rsv1 : BOOLEAN, rsv2 : BOOLEAN, rsv3 : BOOLEAN, masking : Masking]
StreamFrame ==
  [data : Texts, opcode : {TEXT, BINARY},
   fin : {TRUE}, rsv1 : {FALSE}, rsv2 : {FALSE}, rsv3 : {FALSE},
   masking : {m \in Masking : m.mask # <<0, 0, 0, 0>>}]

\* The upgrade responses of the server, as bytes: the texts "HTTP/1.1",
\* "101", "200", "OK", the header names and the header values.
HttpVersion == <<72, 84, 84, 80, 47, 49, 46, 49>>
Code101 == <<49, 48, 49>>
Code200 == <<50, 48, 48>>
ReasonPhrase == <<79, 75>>
ConnectionName == <<67, 111, 110, 110, 101, 99, 116, 105, 111, 110>>
UpgradeName == <<85, 112, 103, 114, 97, 100, 101>>
UpgradeValue == <<85, 112, 103, 114, 97, 100, 101>>
CloseValue == <<99, 108, 111, 115, 101>>
WebsocketValue == <<119, 101, 98, 115, 111, 99, 107, 101, 116>>
WebSocketValue == <<87, 101, 98, 83, 111, 99, 107, 101, 116>>
H2cValue == <<104, 50, 99>>

\* the texts connect() compares with: b'connection', b'upgrade', 'upgrade',
\* 'websocket'
connection == <<99, 111, 110, 110, 101, 99, 116, 105, 111, 110>>
upgrade_ == <<117, 112, 103, 114, 97, 100, 101>>
websocket == <<119, 101, 98, 115, 111, 99, 107, 101, 116>>

\* A response: its status code and the values of its Connection and Upgrade
\* headers (<<>>: the header is absent).
Responses ==
  [code : {Code101, Code200},
   connection : {<<>>, UpgradeValue, CloseValue},
   upgrade : {<<>>, WebsocketValue, WebSocketValue, H2cValue}]

HeaderLine(name, value) ==
  IF value = <<>> THEN <<>> ELSE name \o <<Colon, Space>> \o value \o <<CR, LF>>

\* the bytes of a response: status line, headers, empty line
ResponseBytes(r) ==
  HttpVersion \o <<Space>> \o r.code \o <<Space>> \o ReasonPhrase \o <<CR, LF>>
  \o HeaderLine(ConnectionName, r.connection) \o HeaderLine(UpgradeName, r.upgrade)
  \o <<CR, LF>>

VARIABLES
  ratelimiters,  \* RestSession.ratelimiters: bucket key -> Ratelimiter (index of rl)
  rl,            \* the Ratelimiter objects, in creation order
  bursts,        \* the do_burst tasks, in creation order
  reqs,          \* the submitted requests: their tasks and futures
  now,           \* datetime.now().timestamp(), in seconds
  submitted,     \* per Ratelimiter, the entries Ratelimiter.request enqueued, in order
  dispatched,    \* per Ratelimiter, the entries popped by _burst_run_once, in order
  srv,           \* per Ratelimiter, the server's rate-limit window for its bucket
  protocol,      \* the WebsocketProtocol of the connection
  wire,          \* bytes the server sent that data_received has not been given yet
  closed,        \* the transport was closed because data_received raised
  onwire,        \* the frames the server sent, in order
  frames,        \* the ws_frame_receive events pushed, in order
  received,      \* the ws_receive events pushed, in order
  upgrade,       \* the upgrade response connect() reads and how connect() ended
  hb,            \* the HeartbeatHandler of the connection
  beats,         \* the send_heartbeat tasks, in creation order
  handles,       \* the call_later handles of do_heartbeat, in creation order
  shard,         \* what the Shard wrote and emitted: HEARTBEAT frames, connection_stale
  value,         \* the integer a Snowflake is made from
  snowflake,     \* what Snowflake(value) gave
  args,          \* the arguments of a call of create_frame or to_dict
  returned       \* what the call returned

\* the REST session
rest == <<ratelimiters, rl, bursts, reqs, now, submitted, dispatched, srv>>

\* the gateway connection
gateway ==
  <<protocol, wire, closed, onwire, frames, received, upgrade, hb, beats, handles, shard>>

\* the values the structures are made from, and what was made
values == <<value, snowflake, args, returned>>

vars == <<rest, gateway, values>>

\* ------------------------------------------------------------ Ratelimiter
\* Ratelimiter.__init__
Fresh ==
  [limit |-> Inf, remaining |-> Inf, reset |-> Inf,
   lockOwner |-> 0, lockWaiters |-> <<>>, new_headers |-> FALSE,
   queue |-> <<>>, tasks |-> {}, current_burst_task |-> 0,
   made_first_request |-> FALSE]

\* Ratelimiter.ready
Ready(s) == s.limit # Inf /\ s.reset # Inf /\ s.remaining # Inf

\* Ratelimiter.reset_after added to the current time: when sleep(reset_after) ends
WakeTime(s) == IF s.reset > now THEN s.reset ELSE now

\* self.remaining -= 1
Decrement(x) == IF x = Inf THEN Inf ELSE x - 1

QueuePopLast(q) == [entry |-> q[Len(q)], rest |-> SubSeq(q, 1, Len(q) - 1)]

\* self.queue.pop(0)
QueuePop(q) == [entry |-> Head(q), rest |-> Tail(q)]

\* asyncio.Lock.release, entered by leaving "async with self.lock": the lock
\* goes to the first waiter, which resumes in a later step.
Release(s) ==
  IF s.lockWaiters = <<>>
  THEN [s EXCEPT !.lockOwner = 0]
  ELSE [s EXCEPT !.lockOwner = Head(s.lockWaiters), !.lockWaiters = Tail(s.lockWaiters)]

RemoveWaiter(q, t) == SelectSeq(q, LAMBDA x : x # t)

BurstRunOnceUnkept(s) == [s EXCEPT !.queue = QueuePop(s.queue).rest]

\* _burst_run_once on the Ratelimiter: pop the head, keep its task in _tasks
BurstRunOnce(s) ==
  [s EXCEPT !.queue = QueuePop(s.queue).rest,
            !.tasks = @ \cup {QueuePop(s.queue).entry}]

StartTaskUnlessCancelled(rs, e) ==
  IF e[2] = "w"
  THEN IF rs[e[1]].fut = "cancelled" THEN rs ELSE [rs EXCEPT ![e[1]].w = "http"]
  ELSE [rs EXCEPT ![e[1]].raw = "http"]

\* _burst_run_once on the request: create_task(req()) starts the HTTP operation
StartTask(rs, e) ==
  IF e[2] = "w" THEN [rs EXCEPT ![e[1]].w = "http"]
  ELSE [rs EXCEPT ![e[1]].raw = "http"]

\* The "while self.queue" test of do_burst and what follows it: the next
\* iteration suspends in sleep(0); an empty queue ends the task.
LoopTop(s) ==
  IF s.queue # <<>>
  THEN [s |-> s, pc |-> "yield"]
  ELSE [s |-> Release([s EXCEPT !.current_burst_task = 0]), pc |-> "done"]

\* Ratelimiter.request: enqueue, and start a do_burst task (kept in
\* current_burst_task only after the first request was made).
RlRequest(s, e, newTask) ==
  LET q == [s EXCEPT !.queue = Append(@, e)] IN
  IF ~s.made_first_request THEN [s |-> q, spawn |-> TRUE]
  ELSE IF s.current_burst_task = 0
       THEN [s |-> [q EXCEPT !.current_burst_task = newTask], spawn |-> TRUE]
       ELSE [s |-> q, spawn |-> FALSE]

\* a do_burst task; at records the suspension point a cancellation reached
NewBurst(o) == [rl |-> o, pc |-> "start", must_cancel |-> FALSE, wake |-> 0, at |-> "none"]

Spawn(bs, o, yes) == IF yes THEN Append(bs, NewBurst(o)) ELSE bs

\* Task.cancel(): a task that has not finished gets CancelledError at its
\* next step.
Cancel(bs, t) ==
  IF t # 0 /\ bs[t].pc \notin {"done", "cancelled"}
  THEN [bs EXCEPT ![t].must_cancel = TRUE]
  ELSE bs

\* ------------------------------------------------------------ RestSession
Fmt(pp, k) == IF k \in DOMAIN pp THEN ToString(pp[k]) ELSE "None"

BucketKeyNoChannel(route) ==
  route.meth \o "-" \o Fmt(route.pp, "guild_id") \o "-" \o
  "None" \o "-" \o Fmt(route.pp, "webhook_id")

\* the bucket key of RestSession.request
BucketKey(route) ==
  route.meth \o "-" \o Fmt(route.pp, "guild_id") \o "-" \o
  Fmt(route.pp, "channel_id") \o "-" \o Fmt(route.pp, "webhook_id")

\* A submitted request: its Ratelimiter and route, whether it was submitted
\* before the first request of the bucket was made (cold), the _request task
\* (w, wres) and the future handed to the caller (fut, futval), and the task
\* and future of its re-submission after a 429 (raw, rres, ifut); cq tells
\* that the caller cancelled the future while the request was in the queue;
\* body records the body of a 429 that held no retry_after.
NewReq(o, i, c) ==
  [rl |-> o, route |-> i, cold |-> c, w |-> "queued", wres |-> "none",
   fut |-> "pending", futval |-> "none", cq |-> FALSE,
   raw |-> "none", rres |-> "none", ifut |-> "pending", body |-> "none"]

\* The server's window of a bucket: it ends at reset, used requests were
\* served in it, budget is the remaining the server advertised when it opened
\* and sent counts the requests dispatched since. No window is open at first.
\* hdrs are the X-Ratelimit headers of the last response that was logged.
NoWindow == [reset |-> 0, used |-> 0, budget |-> 0, sent |-> 0, hdrs |-> <<>>]

\* RestSession.__init__: no Ratelimiter yet
NewSession ==
  /\ ratelimiters = <<>>
  /\ rl = <<>>
  /\ bursts = <<>>
  /\ reqs = <<>>
  /\ now = 0
  /\ submitted = <<>>
  /\ dispatched = <<>>
  /\ srv = <<>>


\* self.ratelimiters.get(bucket): the Ratelimiter of the key, 0 for None
GetNone(key) == 0

Lookup(key) == IF key \in DOMAIN ratelimiters THEN ratelimiters[key] ELSE 0

\* RestSession.request(meth, url, path_params) followed by Ratelimiter.request
Submit(i) ==
  LET key == BucketKey(AllRoutes[i])
      known == Lookup(key) # 0
      o == IF known THEN ratelimiters[key] ELSE Len(rl) + 1
      s == IF known THEN rl[o] ELSE Fresh
      r == Len(reqs) + 1
      got == RlRequest(s, <<r, "w">>, Len(bursts) + 1)
  IN /\ ratelimiters' = IF known THEN ratelimiters ELSE (key :> o) @@ ratelimiters
     /\ rl' = IF known THEN [rl EXCEPT ![o] = got.s] ELSE Append(rl, got.s)
     /\ submitted' = IF known THEN [submitted EXCEPT ![o] = Append(@, <<r, "w">>)]
                     ELSE Append(submitted, << <<r, "w">> >>)
     /\ dispatched' = IF known THEN dispatched ELSE Append(dispatched, <<>>)
     /\ srv' = IF known THEN srv ELSE Append(srv, NoWindow)
     /\ bursts' = Spawn(bursts, o, got.spawn)
     /\ reqs' = Append(reqs, NewReq(o, i, ~s.made_first_request))
     /\ UNCHANGED now
     /\ UNCHANGED <<gateway, values>>

\* ---------------------------------------------------------------- do_burst
\* A dispatch made while the server's window is open counts against it.
WindowSent(w) == IF now < w.reset THEN [w EXCEPT !.sent = @ + 1] ELSE w

\* One run of do_burst task t between two suspension points: the Ratelimiter
\* becomes s2, the task stops at pc2 (sleeping until wake2), and when
\* dispatch holds the head of the queue was handed to _burst_run_once.
BurstStep(t, s2, pc2, wake2, dispatch) ==
  LET o == bursts[t].rl
      e == QueuePop(rl[o].queue).entry
  IN /\ rl' = [rl EXCEPT ![o] = s2]
     /\ bursts' = [bursts EXCEPT ![t].pc = pc2, ![t].wake = wake2]
     /\ reqs' = IF dispatch THEN StartTask(reqs, e) ELSE reqs
     /\ dispatched' = IF dispatch THEN [dispatched EXCEPT ![o] = Append(@, e)]
                      ELSE dispatched
     /\ srv' = IF dispatch THEN [srv EXCEPT ![o] = WindowSent(@)] ELSE srv
     /\ UNCHANGED <<ratelimiters, now, submitted>>
     /\ UNCHANGED <<gateway, values>>

\* The body of do_burst from the acquired lock to its first suspension.
Body(t, s) ==
  IF ~s.made_first_request
  THEN BurstStep(t,
         Release([BurstRunOnce(s) EXCEPT !.made_first_request = TRUE,
                                         !.current_burst_task = 0]),
         "done", 0, TRUE)
  ELSE IF ~Ready(s) /\ ~s.new_headers
       THEN BurstStep(t, s, "wait_ready", 0, FALSE)
       ELSE LET c == IF Ready(s) THEN s ELSE [s EXCEPT !.new_headers = FALSE]
            IN BurstStep(t, LoopTop(c).s, LoopTop(c).pc, 0, FALSE)

\* "self.remaining -= 1; self._burst_run_once()" and the loop test after it
DrainOne(t, s) ==
  LET d == BurstRunOnce([s EXCEPT !.remaining = Decrement(@)])
  IN BurstStep(t, LoopTop(d).s, LoopTop(d).pc, 0, TRUE)

Runnable(t, pc) == bursts[t].pc = pc /\ ~bursts[t].must_cancel

BurstStartUnlocked(t) ==
  LET s == rl[bursts[t].rl] IN
  /\ Runnable(t, "start")
  /\ \A u \in 1..(t - 1) : bursts[u].pc # "start"
  /\ Body(t, IF s.lockOwner = 0 THEN [s EXCEPT !.lockOwner = t] ELSE s)

\* first step of a do_burst task: "async with self.lock". The event loop
\* starts tasks in the order create_task was called.
BurstStart(t) ==
  LET s == rl[bursts[t].rl] IN
  /\ Runnable(t, "start")
  /\ \A u \in 1..(t - 1) : bursts[u].pc # "start"
  /\ IF s.lockOwner # 0 \/ s.lockWaiters # <<>>
     THEN BurstStep(t, [s EXCEPT !.lockWaiters = Append(@, t)], "lock", 0, FALSE)
     ELSE Body(t, [s EXCEPT !.lockOwner = t])

\* the lock was released to the waiting task t
BurstLocked(t) ==
  /\ Runnable(t, "lock")
  /\ rl[bursts[t].rl].lockOwner = t
  /\ Body(t, rl[bursts[t].rl])

\* wait_for_headers of "if not self.ready" returns
BurstReady(t) ==
  LET s == rl[bursts[t].rl]
      c == [s EXCEPT !.new_headers = FALSE]
  IN /\ Runnable(t, "wait_ready")
     /\ s.new_headers
     /\ BurstStep(t, LoopTop(c).s, LoopTop(c).pc, 0, FALSE)

\* sleep(0) returns: the "if self.remaining <= 0" test
BurstYield(t) ==
  LET s == rl[bursts[t].rl] IN
  /\ Runnable(t, "yield")
  /\ IF s.remaining <= 0
     THEN IF s.new_headers
          THEN BurstStep(t, [s EXCEPT !.new_headers = FALSE], "sleep", WakeTime(s), FALSE)
          ELSE BurstStep(t, s, "wait_headers", 0, FALSE)
     ELSE DrainOne(t, s)

\* wait_for_headers of "if self.remaining <= 0" returns: sleep(reset_after)
BurstHeaders(t) ==
  LET s == rl[bursts[t].rl] IN
  /\ Runnable(t, "wait_headers")
  /\ s.new_headers
  /\ BurstStep(t, [s EXCEPT !.new_headers = FALSE], "sleep", WakeTime(s), FALSE)

\* sleep(reset_after) returns
BurstWake(t) ==
  /\ Runnable(t, "sleep")
  /\ now >= bursts[t].wake
  /\ DrainOne(t, rl[bursts[t].rl])

BurstCancelledKeepsLock(t) ==
  /\ bursts[t].must_cancel
  /\ bursts[t].pc \notin {"done", "cancelled"}
  /\ bursts' = [bursts EXCEPT ![t].pc = "cancelled", ![t].must_cancel = FALSE,
                              ![t].wake = 0, ![t].at = bursts[t].pc]
  /\ UNCHANGED <<ratelimiters, rl, reqs, now, submitted, dispatched, srv>>
  /\ UNCHANGED <<gateway, values>>

\* CancelledError reaches task t at its suspension point; "async with"
\* releases the lock, the statement after the block is skipped.
BurstCancelled(t) ==
  LET s == rl[bursts[t].rl]
      s2 == IF s.lockOwner = t THEN Release(s)
            ELSE [s EXCEPT !.lockWaiters = RemoveWaiter(@, t)]
  IN /\ bursts[t].must_cancel
     /\ bursts[t].pc \notin {"done", "cancelled"}
     /\ rl' = [rl EXCEPT ![bursts[t].rl] = s2]
     /\ bursts' = [bursts EXCEPT ![t].pc = "cancelled", ![t].must_cancel = FALSE,
                                 ![t].wake = 0, ![t].at = bursts[t].pc]
     /\ UNCHANGED <<ratelimiters, reqs, now, submitted, dispatched, srv>>
     /\ UNCHANGED <<gateway, values>>

\* ---------------------------------------------------------------- _request
The(S) == CHOOSE x \in S : TRUE

HeaderOrUnknown(h, old) == IF h = {} THEN Inf ELSE The(h)

\* "if limit is not None: ratelimiter.limit = int(limit)" and the like
Header(h, old) == IF h = {} THEN old ELSE The(h)

\* the HTTP operation of the dispatched request r returns a response that is
\* not a 429: the headers it carries are stored, the signal is raised
OkStep(r, lim, rem, rst) ==
  /\ reqs[r].w = "http"
  /\ rl' = [rl EXCEPT ![reqs[r].rl].limit = Header(lim, @),
                      ![reqs[r].rl].remaining = Header(rem, @),
                      ![reqs[r].rl].reset = Header(rst, @),
                      ![reqs[r].rl].new_headers = TRUE]
  /\ reqs' = [reqs EXCEPT ![r].w = "done", ![r].wres = "ok"]
  /\ UNCHANGED <<ratelimiters, bursts, now, submitted, dispatched>>
  /\ UNCHANGED <<gateway, values>>

\* the HTTP operation returns a 429: the current burst task is cancelled and
\* _request suspends in "await resp.text()"
ThrottledStep(r) ==
  /\ reqs[r].w = "http"
  /\ bursts' = Cancel(bursts, rl[reqs[r].rl].current_burst_task)
  /\ reqs' = [reqs EXCEPT ![r].w = "body"]
  /\ UNCHANGED <<ratelimiters, rl, now, submitted, dispatched>>
  /\ UNCHANGED <<gateway, values>>

ThrottleResetOnly(s, ra) ==
  [s EXCEPT !.reset = now + ra \div 1000, !.new_headers = TRUE]

\* the state a 429 with this retry_after (milliseconds) forces
Throttle(s, ra) ==
  [s EXCEPT !.remaining = 0, !.reset = now + ra \div 1000, !.new_headers = TRUE]

\* the body of the 429 was read: remaining and reset are forced, the signal
\* is raised and the inner request is submitted again ("await
\* ratelimiter.request(req)")
BodyStep(r, ra) ==
  LET o == reqs[r].rl
      got == RlRequest(Throttle(rl[o], ra), <<r, "raw">>, Len(bursts) + 1)
  IN /\ reqs[r].w = "body"
     /\ rl' = [rl EXCEPT ![o] = got.s]
     /\ bursts' = Spawn(bursts, o, got.spawn)
     /\ reqs' = [reqs EXCEPT ![r].w = "retry", ![r].raw = "queued"]
     /\ submitted' = [submitted EXCEPT ![o] = Append(@, <<r, "raw">>)]
     /\ UNCHANGED <<ratelimiters, now, dispatched>>
     /\ UNCHANGED <<gateway, values>>

\* Bodies of a 429 without a usable retry_after: text that is no JSON, and a
\* JSON object without the key.
BadBodies == {"not json", "no retry_after"}

\* the body of the 429 was read and holds no retry_after. Text that is no
\* JSON makes json.loads raise in RatelimitedResponse.unmarshal, before
\* anything is assigned; for an object without the key _update stores the
\* default None, "ratelimiter.remaining = 0" runs and "r.retry_after / 1000"
\* raises TypeError. Either way the exception ends the task of _request.
BadBodyStep(r, body) ==
  LET o == reqs[r].rl IN
  /\ reqs[r].w = "body"
  /\ rl' = IF body = "not json" THEN rl ELSE [rl EXCEPT ![o].remaining = 0]
  /\ reqs' = [reqs EXCEPT ![r].w = "failed", ![r].wres = "exc", ![r].body = body]
  /\ UNCHANGED <<ratelimiters, bursts, now, submitted, dispatched>>
  /\ UNCHANGED <<gateway, values>>

\* the re-submitted request is the bare HTTP operation: its task ends with
\* whatever the operation returns (st)
RawStep(r, st) ==
  /\ reqs[r].raw = "http"
  /\ reqs' = [reqs EXCEPT ![r].raw = "done", ![r].rres = st]
  /\ UNCHANGED <<ratelimiters, rl, bursts, now, submitted, dispatched>>
  /\ UNCHANGED <<gateway, values>>

\* Responses as inputs: any headers, any status, any retry_after.
RespOk(r, lim, rem, rst) == OkStep(r, lim, rem, rst) /\ UNCHANGED srv

\* the same, the headers of the response being kept for the record
RespLogged(r, lim, rem, rst) ==
  /\ OkStep(r, lim, rem, rst)
  /\ srv' = [srv EXCEPT ![reqs[r].rl].hdrs = <<lim, rem, rst>>]

Resp429(r) == ThrottledStep(r) /\ UNCHANGED srv

BodyRead(r, ra) ==
  /\ now + ra \div 1000 <= MaxTime
  /\ BodyStep(r, ra)
  /\ UNCHANGED srv

BadBodyRead(r, body) == BadBodyStep(r, body) /\ UNCHANGED srv

RawResp(r, st) == RawStep(r, st) /\ UNCHANGED srv

\* the HTTP operation fails: "resp = await req()" raises
RespError(r) ==
  /\ reqs[r].w = "http"
  /\ reqs' = [reqs EXCEPT ![r].w = "failed", ![r].wres = "exc"]
  /\ UNCHANGED <<ratelimiters, rl, bursts, now, submitted, dispatched, srv>>
  /\ UNCHANGED <<gateway, values>>

\* the HTTP operation of the re-submitted request fails
RawError(r) ==
  /\ reqs[r].raw = "http"
  /\ reqs' = [reqs EXCEPT ![r].raw = "failed", ![r].rres = "exc"]
  /\ UNCHANGED <<ratelimiters, rl, bursts, now, submitted, dispatched, srv>>
  /\ UNCHANGED <<gateway, values>>

\* ------------------------------------------------------ _task_done_callback
\* set_result(resp): the done callback gets the finished task as its
\* argument and stores it as the result of the future; on a cancelled
\* future fut.set_result raises InvalidStateError, which the event loop logs
SetResult(q, which) ==
  IF which = "w"
  THEN IF q.fut = "cancelled" THEN q ELSE [q EXCEPT !.fut = "result", !.futval = "task"]
  ELSE [q EXCEPT !.ifut = "result"]

Finished(q, which) ==
  IF which = "w" THEN q.w \in {"done", "failed"} ELSE q.raw \in {"done", "failed"}

\* the done callback of the task of entry <<r, which>> runs
TaskDone(r, which) ==
  LET o == reqs[r].rl IN
  /\ Finished(reqs[r], which)
  /\ <<r, which>> \in rl[o].tasks
  /\ rl' = [rl EXCEPT ![o].tasks = @ \ {<<r, which>>}]
  /\ reqs' = [reqs EXCEPT ![r] = SetResult(@, which)]
  /\ UNCHANGED <<ratelimiters, bursts, now, submitted, dispatched, srv>>
  /\ UNCHANGED <<gateway, values>>

\* "return await ratelimiter.request(req)": the future of the re-submitted
\* request has a result, and _request returns it
RetryReturn(r) ==
  /\ reqs[r].w = "retry"
  /\ reqs[r].ifut = "result"
  /\ reqs' = [reqs EXCEPT ![r].w = "done", ![r].wres = "rtask"]
  /\ UNCHANGED <<ratelimiters, rl, bursts, now, submitted, dispatched, srv>>
  /\ UNCHANGED <<gateway, values>>

\* the caller cancels the future Ratelimiter.request returned for request r
FutureCancel(r) ==
  /\ reqs[r].fut = "pending"
  /\ reqs' = [reqs EXCEPT ![r].fut = "cancelled", ![r].cq = (reqs[r].w = "queued")]
  /\ UNCHANGED <<ratelimiters, rl, bursts, now, submitted, dispatched, srv>>
  /\ UNCHANGED <<gateway, values>>

\* the clock advances
Tick ==
  /\ now < MaxTime
  /\ now' = now + 1
  /\ UNCHANGED <<ratelimiters, rl, bursts, reqs, submitted, dispatched, srv>>
  /\ UNCHANGED <<gateway, values>>

\* ------------------------------------------------------------ the server
\* A server that keeps its word: a window lasts one second and allows SrvLimit
\* requests; every response carries the three headers, and a request over
\* the limit gets a 429 whose retry_after runs to the end of the window.
Window(w) ==
  IF now >= w.reset
  THEN [w EXCEPT !.reset = now + 1, !.used = 0, !.budget = SrvLimit - 1, !.sent = 0]
  ELSE w

Served(w) == [Window(w) EXCEPT !.used = @ + 1]

SrvOk(r) ==
  LET w == Window(srv[reqs[r].rl]) IN
  /\ w.used < SrvLimit
  /\ OkStep(r, {SrvLimit}, {SrvLimit - w.used - 1}, {w.reset})
  /\ srv' = [srv EXCEPT ![reqs[r].rl] = Served(@)]

Srv429(r) ==
  /\ Window(srv[reqs[r].rl]).used >= SrvLimit
  /\ ThrottledStep(r)
  /\ UNCHANGED srv

SrvBody(r) ==
  LET w == srv[reqs[r].rl] IN
  /\ BodyStep(r, IF now < w.reset THEN (w.reset - now) * 1000 ELSE 0)
  /\ UNCHANGED srv

SrvRaw(r) ==
  LET w == Window(srv[reqs[r].rl]) IN
  /\ RawStep(r, IF w.used < SrvLimit THEN "ok" ELSE "429")
  /\ srv' = [srv EXCEPT ![reqs[r].rl] = IF w.used < SrvLimit THEN Served(@) ELSE @]

\* ------------------------------------------------------------ frame codec
\* Bytes are the numbers 0..255.
\* WebsocketFrame.get_fin and the other accessors: byte & mask
GetLengthWithMask(byte) == byte

GetFin(byte) == (byte \div 128) * 128

GetRsv1(byte) == ((byte \div 64) % 2) * 64

GetRsv2(byte) == ((byte \div 32) % 2) * 32

GetRsv3(byte) == ((byte \div 16) % 2) * 16

GetOpcode(byte) == byte % 16

GetMask(byte) == (byte \div 128) * 128

GetLength(byte) == byte % 128

\* a ^ b
RECURSIVE Xor(_, _)
Xor(a, b) ==
  IF a = 0 THEN b
  ELSE IF b = 0 THEN a
  ELSE 2 * Xor(a \div 2, b \div 2) + (((a % 2) + (b % 2)) % 2)

\* WebsocketFrame.apply_mask
ApplyMask(mask, data) == [i \in 1..Len(data) |-> Xor(data[i], mask[((i - 1) % 4) + 1])]

\* length.to_bytes(size, 'big', signed=False)
RECURSIVE ToBytes(_, _)
ToBytes(n, size) == IF size = 0 THEN <<>> ELSE Append(ToBytes(n \div 256, size - 1), n % 256)

\* int.from_bytes(buffer, 'big', signed=False)
RECURSIVE FromBytes(_)
FromBytes(b) ==
  IF b = <<>> THEN 0 ELSE FromBytes(SubSeq(b, 1, Len(b) - 1)) * 256 + b[Len(b)]

CreateFrameShortBelow(data, opcode, fin, rsv1, rsv2, rsv3, masked, mask) ==
  LET b0 == (IF fin THEN 128 ELSE 0) + (IF rsv1 THEN 64 ELSE 0)
            + (IF rsv2 THEN 32 ELSE 0) + (IF rsv3 THEN 16 ELSE 0) + opcode
      length == Len(data)
      code == IF length <= SmallLen THEN length
              ELSE IF length < ShortLen THEN SmallLen + 1 ELSE SmallLen + 2
      ext == IF length <= SmallLen THEN <<>>
             ELSE IF length < ShortLen THEN ToBytes(length, 2) ELSE ToBytes(length, 8)
      b1 == (IF masked THEN 128 ELSE 0) + code
  IN <<b0, b1>> \o ext \o (IF masked THEN mask \o ApplyMask(mask, data) ELSE data)

\* WebsocketFrame.create_frame; mask is what os.urandom(4) returned
CreateFrame(data, opcode, fin, rsv1, rsv2, rsv3, masked, mask) ==
  LET b0 == (IF fin THEN 128 ELSE 0) + (IF rsv1 THEN 64 ELSE 0)
            + (IF rsv2 THEN 32 ELSE 0) + (IF rsv3 THEN 16 ELSE 0) + opcode
      length == Len(data)
      code == IF length <= SmallLen THEN length
              ELSE IF length <= ShortLen THEN SmallLen + 1 ELSE SmallLen + 2
      ext == IF length <= SmallLen THEN <<>>
             ELSE IF length <= ShortLen THEN ToBytes(length, 2) ELSE ToBytes(length, 8)
      b1 == (IF masked THEN 128 ELSE 0) + code
  IN <<b0, b1>> \o ext \o (IF masked THEN mask \o ApplyMask(mask, data) ELSE data)

\* a call of create_frame with the arguments at hand
CreateFrameCall ==
  /\ args # <<>>
  /\ returned = <<>>
  /\ returned' = CreateFrame(args.data, args.opcode, args.fin, FALSE, FALSE, FALSE,
                             args.masking.masked, args.masking.mask)
  /\ UNCHANGED <<value, snowflake, args, rest, gateway>>

\* ------------------------------------------------------- WebsocketProtocol
\* WebsocketFrame(): an object whose attributes are set as the bytes arrive
\* (-1: not set)
NewFrame ==
  [fbyte |-> -1, sbyte |-> -1, length |-> -1, bytes_needed |-> -1,
   length_buffer |-> <<>>, data |-> <<>>]

\* WebsocketProtocol.__init__
NewProtocol ==
  [state |-> "WAITING_FBYTE", frame |-> NewFrame, headers |-> <<>>, have_headers |-> FALSE]

\* data[position:position + n]
Slice(data, position, n) ==
  SubSeq(data, position + 1, IF position + n < Len(data) THEN position + n ELSE Len(data))

\* json.loads on the payloads of the model (texts over Alphabet): a text of
\* digits is a JSON number, every other one is not JSON
JsonLoads(data) == data # <<>> /\ \A i \in 1..Len(data) : data[i] = Digit

\* BaseConnection.ws_frame_receive raises: the payload of a TEXT frame is not JSON
Raises(frame) == GetOpcode(frame.fbyte) = TEXT /\ ~JsonLoads(frame.data)

\* push_event('ws_frame_receive', frame): the listener ws_frame_receive is
\* called with the frame; for a TEXT frame it unmarshals the payload and
\* pushes ws_receive. c is the run of create_frames: the protocol p, the
\* position, the events pushed (ev, rx) and whether an exception left it.
PushFrame(c) ==
  LET f == c.p.frame
      c1 == [c EXCEPT !.ev = Append(@, [fbyte |-> f.fbyte, data |-> f.data])]
  IN IF GetOpcode(f.fbyte) # TEXT THEN c1
     ELSE IF JsonLoads(f.data) THEN [c1 EXCEPT !.rx = Append(@, f.data)]
     ELSE [c1 EXCEPT !.raised = TRUE]

\* create_frames, "if self.state == WAITING_FBYTE"
FbyteStage(c, data) ==
  IF c.p.state # "WAITING_FBYTE" THEN c
  ELSE [c EXCEPT !.p.frame.fbyte = data[c.pos + 1], !.pos = @ + 1,
                 !.p.state = "WAITING_SBYTE"]

\* create_frames, "if self.state == WAITING_SBYTE"
SbyteStage(c, data) ==
  IF c.p.state # "WAITING_SBYTE" THEN c
  ELSE LET sbyte == data[c.pos + 1]
           length == GetLength(sbyte)
       IN [c EXCEPT !.pos = @ + 1,
             !.p.frame.data = <<>>,
             !.p.frame.sbyte = sbyte,
             !.p.frame.length = length,
             !.p.frame.length_buffer = IF length > SmallLen THEN <<>> ELSE @,
             !.p.frame.bytes_needed =
                IF length = SmallLen + 1 THEN 2
                ELSE IF length = SmallLen + 2 THEN 8 ELSE length,
             !.p.state = IF length > SmallLen THEN "WAITING_LENGTH" ELSE "WAITING_DATA"]

\* create_frames, "if self.state == WAITING_LENGTH"
LengthStage(c, data) ==
  IF c.p.state # "WAITING_LENGTH" THEN c
  ELSE LET length_bytes == Slice(data, c.pos, c.p.frame.bytes_needed)
           buffer == c.p.frame.length_buffer \o length_bytes
           needed == c.p.frame.bytes_needed - Len(length_bytes)
       IN IF needed # 0
          THEN [c EXCEPT !.pos = @ + Len(length_bytes),
                         !.p.frame.bytes_needed = needed,
                         !.p.frame.length_buffer = buffer]
          ELSE [c EXCEPT !.pos = @ + Len(length_bytes),
                         !.p.frame.length_buffer = buffer,
                         !.p.frame.length = FromBytes(buffer),
                         !.p.frame.bytes_needed = FromBytes(buffer),
                         !.p.state = "WAITING_DATA"]

\* create_frames, "if self.state == WAITING_DATA": the complete frame is
\* pushed, then the protocol takes a new frame; an exception of the listener
\* leaves create_frames before that
DataStage(c, data) ==
  IF c.p.state # "WAITING_DATA" THEN c
  ELSE LET data_bytes == Slice(data, c.pos, c.p.frame.bytes_needed)
           got == [c EXCEPT !.pos = @ + Len(data_bytes),
                            !.p.frame.bytes_needed = @ - Len(data_bytes),
                            !.p.frame.data = @ \o data_bytes]
           pushed == PushFrame(got)
       IN IF got.p.frame.bytes_needed # 0 THEN got
          ELSE IF pushed.raised THEN pushed
          ELSE [pushed EXCEPT !.p.frame = NewFrame, !.p.state = "WAITING_FBYTE"]

\* the "while True" loop of create_frames, from its top
RECURSIVE FramesLoop(_, _)
FramesLoop(c, data) ==
  IF c.raised \/ c.pos >= Len(data) THEN c
  ELSE LET c1 == FbyteStage(c, data) IN
       IF c1.pos >= Len(data) THEN c1
       ELSE LET c2 == SbyteStage(c1, data) IN
            IF c2.pos >= Len(data) THEN c2
            ELSE LET c3 == LengthStage(c2, data) IN
                 IF c3.pos >= Len(data) THEN c3
                 ELSE FramesLoop(DataStage(c3, data), data)

\* WebsocketProtocol.create_frames(data) on protocol p
CreateFrames(p, data) ==
  FramesLoop([p |-> p, pos |-> 0, ev |-> <<>>, rx |-> <<>>, raised |-> FALSE], data)

\* data.index(b'\r\n\r\n'), or -1 for ValueError
Index(data) ==
  LET at == {i \in 0..(Len(data) - 4) : SubSeq(data, i + 1, i + 4) = <<CR, LF, CR, LF>>}
  IN IF at = {} THEN -1 ELSE CHOOSE i \in at : \A j \in at : i <= j

\* WebsocketProtocol.data_received(data) on protocol p
Received(p, data) ==
  IF p.have_headers THEN CreateFrames(p, data)
  ELSE IF Index(data) = -1
       THEN CreateFrames([p EXCEPT !.headers = @ \o data], <<>>)
       ELSE CreateFrames([p EXCEPT !.headers = @ \o SubSeq(data, 1, Index(data) + 4),
                                   !.have_headers = TRUE],
                         SubSeq(data, Index(data) + 5, Len(data)))

\* The transport gives the next k bytes to data_received; an exception of
\* data_received is fatal to the transport, which closes the connection.
DataReceived(k) ==
  LET c == Received(protocol, SubSeq(wire, 1, k)) IN
  /\ ~closed
  /\ k \in 1..Len(wire)
  /\ wire' = SubSeq(wire, k + 1, Len(wire))
  /\ protocol' = c.p
  /\ frames' = frames \o c.ev
  /\ received' = received \o c.rx
  /\ closed' = c.raised
  /\ UNCHANGED <<onwire, upgrade, hb, beats, handles, shard, rest, values>>

\* connect() has not ended
NoResult == [result |-> "none", field |-> "", got |-> <<>>]

\* ------------------------------------------------------------ connect
\* bytes.lower, bytes.strip
Lower(b) == IF b >= 65 /\ b <= 90 THEN b + 32 ELSE b

LowerAll(s) == [i \in 1..Len(s) |-> Lower(s[i])]

IsSpace(b) == b \in {9, 10, 11, 12, 13, 32}

RECURSIVE Strip(_)
Strip(s) ==
  IF s = <<>> THEN s
  ELSE IF IsSpace(Head(s)) THEN Strip(Tail(s))
  ELSE IF IsSpace(s[Len(s)]) THEN Strip(SubSeq(s, 1, Len(s) - 1))
  ELSE s

\* the first place of byte b in s (from 1), or 0
Find(s, b) ==
  LET at == {i \in 1..Len(s) : s[i] = b}
  IN IF at = {} THEN 0 ELSE CHOOSE i \in at : \A j \in at : i <= j

\* data.split(b':', 1)
SplitOnce(s, b) ==
  IF Find(s, b) = 0 THEN <<s>>
  ELSE <<SubSeq(s, 1, Find(s, b) - 1), SubSeq(s, Find(s, b) + 1, Len(s))>>

\* status.split(b' ')
RECURSIVE Split(_, _)
Split(s, b) ==
  IF Find(s, b) = 0 THEN <<s>>
  ELSE <<SubSeq(s, 1, Find(s, b) - 1)>> \o Split(SubSeq(s, Find(s, b) + 1, Len(s)), b)

\* self.protocol.headers.index(b'\r\n', offset), or -1 for ValueError
IndexCrLf(s, offset) ==
  LET at == {i \in offset..(Len(s) - 2) : SubSeq(s, i + 1, i + 2) = <<CR, LF>>}
  IN IF at = {} THEN -1 ELSE CHOOSE i \in at : \A j \in at : i <= j

\* BaseConnection.iter_headers from offset: the lines before the empty one,
\* each split at its first ':' into stripped, lower-cased parts; failed when
\* index raises
RECURSIVE IterHeaders(_, _)
IterHeaders(s, offset) ==
  LET index == IndexCrLf(s, offset) + 2
      data == SubSeq(s, offset + 1, index)
      parts == SplitOnce(data, Colon)
      more == IterHeaders(s, index)
  IN IF IndexCrLf(s, offset) = -1 THEN [lines |-> <<>>, failed |-> TRUE]
     ELSE IF data = <<CR, LF>> THEN [lines |-> <<>>, failed |-> FALSE]
     ELSE [lines |-> <<[k \in 1..Len(parts) |-> LowerAll(Strip(parts[k]))]>> \o more.lines,
           failed |-> more.failed]

\* int(status_code)
IsNumber(s) == s # <<>> /\ \A i \in 1..Len(s) : s[i] >= 48 /\ s[i] <= 57

RECURSIVE ToInt(_)
ToInt(s) == IF s = <<>> THEN 0 ELSE ToInt(SubSeq(s, 1, Len(s) - 1)) * 10 + (s[Len(s)] - 48)

\* dict(headers).get(name): the value of the last line with that name, or
\* <<>> for None (a header line always has a value after strip here)
Get(lines, name) ==
  LET at == {i \in 1..Len(lines) : lines[i][1] = name}
  IN IF at = {} THEN <<>> ELSE lines[CHOOSE i \in at : \A j \in at : i >= j][2]

\* how connect() ends
Ended(result, field, got) == [result |-> result, field |-> field, got |-> got]

\* BaseConnection.connect from "headers = self.iter_headers()" on
ConnectResult(s) ==
  LET it == IterHeaders(s, 0)
      status == it.lines[1]
      words == Split(status[1], Space)
      headers == Tail(it.lines)
  IN IF it.lines = <<>> THEN Ended(IF it.failed THEN "ValueError" ELSE "RuntimeError", "", <<>>)
     ELSE IF Len(status) # 1 THEN Ended("ValueError", "", <<>>)
     ELSE IF Len(words) < 2 THEN Ended("IndexError", "", <<>>)
     ELSE IF ~IsNumber(words[2]) THEN Ended("ValueError", "", <<>>)
     ELSE IF ToInt(words[2]) # SWITCHING_PROTOCOLS
          THEN Ended("BadWsHttpResponse", "status code", words[2])
     ELSE IF it.failed \/ \E i \in 1..Len(headers) : Len(headers[i]) # 2
          THEN Ended("ValueError", "", <<>>)
     ELSE IF Get(headers, connection) = <<>> THEN Ended("AttributeError", "", <<>>)
     ELSE IF Get(headers, connection) # upgrade_
          THEN Ended("BadWsHttpResponse", "connection", Get(headers, connection))
     ELSE IF Get(headers, upgrade_) = <<>> THEN Ended("AttributeError", "", <<>>)
     ELSE IF Get(headers, upgrade_) # websocket
          THEN Ended("BadWsHttpResponse", "upgrade", Get(headers, upgrade_))
     ELSE Ended("ok", "", <<>>)

\* connect() resumes from "await self.protocol.have_headers.wait()" and ends
Connect ==
  /\ protocol.have_headers
  /\ upgrade = NoResult
  /\ upgrade' = ConnectResult(protocol.headers)
  /\ UNCHANGED <<protocol, wire, closed, onwire, frames, received, hb, beats, handles,
                 shard, rest, values>>

\* ------------------------------------------------------------ heartbeat
\* The gateway messages arrive decoded at Shard.ws_receive; the tasks and
\* timers of the HeartbeatHandler run one step at a time on the event loop.
\* Timer delays and the ack timeout are left to the scheduler: a pending
\* timer may fire, and a waiting task may time out, at any moment.

\* response.data['heartbeat_interval'] / 1000 of a HELLO
HelloInterval == 41

\* loop.create_task(self.send_heartbeat()): a task that has not run yet
CreateTask(ts) == Append(ts, [pc |-> "start"])

\* loop.call_later(delay, func)
CallLater(hs, delay) == Append(hs, [state |-> "pending", delay |-> delay])

\* TimerHandle.cancel
HandleCancel(hs, h) ==
  IF h \in DOMAIN hs /\ hs[h].state = "pending" THEN [hs EXCEPT ![h].state = "cancelled"]
  ELSE hs

\* the part of the connection the heartbeat does not touch
codec == <<protocol, wire, closed, onwire, frames, received, upgrade>>

\* ShardOpcode
HEARTBEAT == 1
IDENTIFY == 2

\* the heartbeat_interval of a HELLO, in milliseconds (whole seconds)
HelloMillis == {HelloInterval * 1000, 2 * HelloInterval * 1000}

\* Shard.identify_payload, by its keys: "shard" is set on the payload, next
\* to "op" and "d", when the pusher is multi_sharded
IdentifyPayloadSharded(multi_sharded) ==
  [op |-> IDENTIFY, keys |-> {"op", "d", "shard"}, d |-> {"token", "properties"}]

IdentifyPayload(multi_sharded) ==
  [op |-> IDENTIFY,
   keys |-> IF multi_sharded THEN {"op", "d", "shard"} ELSE {"op", "d"},
   d |-> {"token", "properties"}]

\* Shard.heartbeat_payload
HeartbeatPayload == [op |-> HEARTBEAT, keys |-> {"op", "d"}, d |-> {}]

\* send_json(payload): one frame written to the transport
SendJson(sh, payload) == [sh EXCEPT !.written = Append(@, payload)]

\* Shard.ws_receive, opcode HELLO, the message holding heartbeat_interval ms
\* and the pusher being multi_sharded or not: identify, set the interval,
\* start()
HelloOf(ms, multi_sharded) ==
  /\ shard.hellos < MaxHello
  /\ shard' = [SendJson(shard, IdentifyPayload(multi_sharded)) EXCEPT
                 !.hellos = @ + 1,
                 !.hello = [heartbeat_interval |-> ms, multi_sharded |-> multi_sharded]]
  /\ hb' = [hb EXCEPT !.heartbeat_interval = ms \div 1000]
  /\ beats' = CreateTask(beats)
  /\ UNCHANGED <<handles, codec, rest, values>>

Hello == \E ms \in HelloMillis, multi_sharded \in BOOLEAN : HelloOf(ms, multi_sharded)

\* Shard.ws_receive, opcode HEARTBEAT_ACK: push_event('heartbeat_ack')
\* resolves every pending wait('heartbeat_ack')
AckStep ==
  /\ shard' = [shard EXCEPT !.acks = @ + 1]
  /\ beats' = [b \in DOMAIN beats |->
                 IF beats[b].pc = "wait_ack" THEN [pc |-> "acked"] ELSE beats[b]]
  /\ UNCHANGED <<hb, handles, codec, rest, values>>

HeartbeatAck == shard.acks < MaxAck /\ AckStep

\* a gateway that acks the heartbeats it gets, before the timeout
AckInTime ==
  /\ shard.acks < MaxBeats
  /\ \E b \in DOMAIN beats : beats[b].pc = "wait_ack"
  /\ AckStep

\* HeartbeatHandler.send_heartbeat up to "await self.wait_ack()"
SendHeartbeat(b) ==
  /\ beats[b].pc = "start"
  /\ IF hb.stopped
     THEN /\ beats' = [beats EXCEPT ![b].pc = "done"]
          /\ UNCHANGED shard
     ELSE /\ beats' = [beats EXCEPT ![b].pc = "wait_ack"]
          /\ shard' = [SendJson(shard, HeartbeatPayload) EXCEPT !.heartbeats = @ + 1]
  /\ UNCHANGED <<hb, handles, codec, rest, values>>

DoHeartbeatOnce(h, hs) == [hb |-> h, handles |-> hs]

\* HeartbeatHandler.do_heartbeat on handler h with handles hs
DoHeartbeat(h, hs) ==
  IF h.stopped THEN [hb |-> h, handles |-> hs]
  ELSE [hb |-> [h EXCEPT !.current_handle = Len(hs) + 1],
        handles |-> CallLater(hs, h.heartbeat_interval)]

WaitAckedTwice(b) ==
  LET d == DoHeartbeat([hb EXCEPT !.last_acked = now, !.heartbeats_acked = @ + 2], handles) IN
  /\ beats[b].pc = "acked"
  /\ beats' = [beats EXCEPT ![b].pc = "done"]
  /\ hb' = d.hb
  /\ handles' = d.handles
  /\ UNCHANGED <<shard, codec, rest, values>>

\* wait_ack returns after the ack, then do_heartbeat
WaitAcked(b) ==
  LET d == DoHeartbeat([hb EXCEPT !.last_acked = now, !.heartbeats_acked = @ + 1], handles) IN
  /\ beats[b].pc = "acked"
  /\ beats' = [beats EXCEPT ![b].pc = "done"]
  /\ hb' = d.hb
  /\ handles' = d.handles
  /\ UNCHANGED <<shard, codec, rest, values>>

\* HeartbeatHandler.stop
Stop(h, hs) ==
  [hb |-> [h EXCEPT !.stopped = TRUE], handles |-> HandleCancel(hs, h.current_handle)]

\* wait_ack times out: stop, push_event('connection_stale'), then do_heartbeat
WaitTimeout(b) ==
  LET s == Stop(hb, handles)
      d == DoHeartbeat(s.hb, s.handles)
  IN /\ beats[b].pc = "wait_ack"
     /\ beats' = [beats EXCEPT ![b].pc = "done"]
     /\ shard' = [shard EXCEPT !.stale = @ + 1]
     /\ hb' = d.hb
     /\ handles' = d.handles
     /\ UNCHANGED <<codec, rest, values>>

\* a call_later handle fires: loop.create_task(send_heartbeat())
TimerFire(h) ==
  /\ handles[h].state = "pending"
  /\ handles' = [handles EXCEPT ![h].state = "fired"]
  /\ beats' = CreateTask(beats)
  /\ UNCHANGED <<hb, shard, codec, rest, values>>

\* ------------------------------------------------------------ Snowflake
\* An integer is its sign and its magnitude in 30-bit digits, the least
\* significant first and the last one not 0, as the interpreter keeps it.
PyLong_SHIFT == 30
SNOWFLAKE_MINIMUM_BIT_LENGTH == 51
SNOWFLAKE_MAXIMUM_BIT_LENGTH == 111

Zero == [sign |-> 1, digits |-> <<>>]

\* the integers user code passes: 0, and of every length up to MaxDigits
\* those whose last digit is around the two bounds, either sign
TopDigits == {1, 2^20 - 1, 2^20, 2^21 - 1, 2^21, 2^30 - 1}
LowDigits == {0, 2^30 - 1}
Ints ==
  {Zero} \cup
  {[sign |-> sg, digits |-> [i \in 1..n |-> IF i = n THEN top ELSE low]] :
     sg \in {1, -1}, n \in 1..MaxDigits, top \in TopDigits, low \in LowDigits}

\* the bits of one digit
RECURSIVE BitLengthDigit(_)
BitLengthDigit(d) == IF d = 0 THEN 0 ELSE 1 + BitLengthDigit(d \div 2)

\* int.bit_length: the bits of the magnitude
BitLength(n) ==
  IF n.digits = <<>> THEN 0
  ELSE (Len(n.digits) - 1) * PyLong_SHIFT + BitLengthDigit(n.digits[Len(n.digits)])

NotMade == [result |-> "none", value |-> Zero]

SnowflakeBelowMaximum(n) ==
  IF SNOWFLAKE_MINIMUM_BIT_LENGTH <= BitLength(n)
     /\ BitLength(n) < SNOWFLAKE_MAXIMUM_BIT_LENGTH
  THEN [result |-> "Snowflake", value |-> n]
  ELSE [result |-> "ValueError", value |-> Zero]

\* Snowflake.__new__ on an integer
Snowflake(n) ==
  IF SNOWFLAKE_MINIMUM_BIT_LENGTH <= BitLength(n)
     /\ BitLength(n) <= SNOWFLAKE_MAXIMUM_BIT_LENGTH
  THEN [result |-> "Snowflake", value |-> n]
  ELSE [result |-> "ValueError", value |-> Zero]

\* user code calls Snowflake(value)
NewSnowflake ==
  /\ snowflake = NotMade
  /\ snowflake' = Snowflake(value)
  /\ UNCHANGED <<value, args, returned, rest, gateway>>

\* ------------------------------------------------------------ JsonStructure
\* JsonField.__init__: the attributes the object gets. The flag is stored
\* under the name omitempty.
JsonField(key, marshal_callable, omitemoty) ==
  [name |-> key, marshal_callable |-> marshal_callable, omitempty |-> omitemoty]

\* field.omitemoty as to_dict reads it: an attribute the object does not
\* have, so that reading it raises AttributeError
ReadOmitemoty(field) ==
  IF "omitemoty" \in DOMAIN field THEN [raised |-> FALSE, value |-> field.omitemoty]
  ELSE [raised |-> TRUE, value |-> FALSE]

\* JsonField.marshal(data): the data itself without a callable; the
\* callables of the model return None or raise
Marshal(field, data) ==
  IF field.marshal_callable = "none" THEN [raised |-> FALSE, value |-> data]
  ELSE IF field.marshal_callable = "gives None" THEN [raised |-> FALSE, value |-> "None"]
  ELSE [raised |-> TRUE, value |-> "None"]

\* one turn of the loop of to_dict: the items it adds to dct for a field
\* whose attribute is attr ("unset": getattr raises AttributeError)
ToDictField(field, attr) ==
  LET out == Marshal(field, attr) IN
  IF attr = "unset" THEN {}
  ELSE IF attr = "None" /\ ReadOmitemoty(field).raised THEN {}
  ELSE IF attr = "None" /\ ReadOmitemoty(field).value THEN {}
  ELSE IF out.raised THEN {}
  ELSE IF out.value = "None" /\ ReadOmitemoty(field).raised THEN {}
  ELSE IF out.value = "None" /\ ReadOmitemoty(field).value THEN {}
  ELSE {<<field.name, out.value>>}

\* JsonStructure.to_dict on an object with these fields and attributes
ToDict(obj) == UNION {ToDictField(obj[i].field, obj[i].attr) : i \in DOMAIN obj}

\* a call of to_dict on the object at hand
ToDictCall ==
  /\ args # <<>>
  /\ returned = <<>>
  /\ returned' = [dct |-> ToDict(args)]
  /\ UNCHANGED <<value, snowflake, args, rest, gateway>>

\* ------------------------------------------------------------ initial states
\* nothing made yet
NoValues == value = Zero /\ snowflake = NotMade /\ args = <<>> /\ returned = <<>>

\* HeartbeatHandler.__init__ (last_sent, read by latency alone, is left out)
NewHandler ==
  [heartbeat_interval |-> Inf, heartbeats_sent |-> 0, heartbeats_acked |-> 0,
   last_acked |-> Inf, current_handle |-> 0, stopped |-> FALSE]

\* nothing written or emitted by the Shard yet, no HELLO received
NoHello == [heartbeat_interval |-> 0, multi_sharded |-> FALSE]

NewShard ==
  [heartbeats |-> 0, stale |-> 0, hellos |-> 0, acks |-> 0,
   written |-> <<>>, hello |-> NoHello]

\* BaseConnection.__init__ and a transport the server has sent nothing on
NewConnection ==
  /\ protocol = NewProtocol
  /\ wire = <<>>
  /\ closed = FALSE
  /\ onwire = [head |-> <<>>, frames |-> <<>>]
  /\ frames = <<>>
  /\ received = <<>>
  /\ upgrade = NoResult
  /\ hb = NewHandler
  /\ beats = <<>>
  /\ handles = <<>>
  /\ shard = NewShard

Init == NewSession /\ NewConnection /\ NoValues

\* an integer about to be made a Snowflake
InitSnowflake ==
  /\ NewSession /\ NewConnection
  /\ value \in Ints /\ snowflake = NotMade /\ args = <<>> /\ returned = <<>>

\* a connection after the upgrade, the server having sent the frames fs
RECURSIVE FramesBytes(_)
FramesBytes(fs) ==
  IF fs = <<>> THEN <<>>
  ELSE LET f == Head(fs) IN
       CreateFrame(f.data, f.opcode, f.fin, f.rsv1, f.rsv2, f.rsv3,
                   f.masking.masked, f.masking.mask) \o FramesBytes(Tail(fs))

Upgraded(fs) ==
  /\ protocol = [NewProtocol EXCEPT !.have_headers = TRUE]
  /\ wire = FramesBytes(fs)
  /\ closed = FALSE
  /\ onwire = [head |-> <<>>, frames |-> fs]
  /\ frames = <<>>
  /\ received = <<>>
  /\ upgrade = NoResult
  /\ hb = NewHandler
  /\ beats = <<>>
  /\ handles = <<>>
  /\ shard = NewShard

\* a connection on which the server answers the upgrade request with
\* response r and then sends the frames fs
Upgrading(r, fs) ==
  /\ protocol = NewProtocol
  /\ wire = ResponseBytes(r) \o FramesBytes(fs)
  /\ closed = FALSE
  /\ onwire = [head |-> ResponseBytes(r), frames |-> fs]
  /\ frames = <<>>
  /\ received = <<>>
  /\ upgrade = NoResult
  /\ hb = NewHandler
  /\ beats = <<>>
  /\ handles = <<>>
  /\ shard = NewShard

\* the frames sent right after the response: none, or one with payload "1"
FirstFrames == {<<>>} \cup {<<f>> : f \in {g \in StreamFrame : g.data = <<Digit>>}}

InitHandshake == NewSession /\ NoValues /\ \E r \in Responses, fs \in FirstFrames : Upgrading(r, fs)

\* one frame, any flags
InitFrame == NewSession /\ NoValues /\ \E f \in AnyFrame : Upgraded(<<f>>)

\* a stream of frames
InitStream ==
  NewSession /\ NoValues /\ \E n \in 1..MaxFrames : \E fs \in [1..n -> StreamFrame] : Upgraded(fs)

\* the server sent these bytes after the upgrade
UpgradedBytes(bs) ==
  /\ protocol = [NewProtocol EXCEPT !.have_headers = TRUE]
  /\ wire = bs
  /\ closed = FALSE
  /\ onwire = [head |-> <<>>, frames |-> <<>>]
  /\ frames = <<>>
  /\ received = <<>>
  /\ upgrade = NoResult
  /\ hb = NewHandler
  /\ beats = <<>>
  /\ handles = <<>>
  /\ shard = NewShard

\* Frame headers as bytes: a first byte, a second byte with either mask bit
\* and a length code on either side of 125, no length bytes or the 2 or 8
\* length bytes of a length (below 2^31), and the bytes after them.
FirstBytes == {128 + BINARY, PING}
LengthCodes == {0, 1, SmallLen, SmallLen + 1, SmallLen + 2}
SecondBytes == {m + c : m \in {0, 128}, c \in LengthCodes}
Lengths == (0..MaxExt) \cup {256, ShortLen, ShortLen + 1}
LengthBytes ==
  {<<>>} \cup {ToBytes(n, 2) : n \in {m \in Lengths : m <= ShortLen}}
         \cup {ToBytes(n, 8) : n \in Lengths}
Trailing == {<<>>, <<Digit>>, <<Digit, Digit>>}
HeaderBytes ==
  {<<f, b>> \o ext \o d : f \in FirstBytes, b \in SecondBytes, ext \in LengthBytes, d \in Trailing}

\* Payloads of the lengths next to the two thresholds of create_frame, and
\* the empty one; byte i of a payload is i mod 256.
PayloadLengths ==
  {0} \cup ((SmallLen - MaxOver)..(SmallLen + MaxOver))
      \cup ((ShortLen - MaxOver)..(ShortLen + MaxOver))
Payload(n) == [i \in 1..n |-> i % 256]
FrameArgs ==
  [data : {Payload(n) : n \in PayloadLengths}, opcode : {TEXT, BINARY},
   fin : BOOLEAN, masking : Masking]

InitEncoder ==
  /\ NewSession /\ NewConnection
  /\ value = Zero /\ snowflake = NotMade /\ args \in FrameArgs /\ returned = <<>>

\* Objects of a JsonStructure with up to MaxFields fields "f1", "f2", ...:
\* each field declared with or without omitemoty and with or without a
\* marshal callable, its attribute None, a value, or not set.
FieldNames == [i \in 1..(MaxFields + 1) |-> <<"f1", "f2", "f3">>[i]]
FieldOf(i) ==
  {[field |-> JsonField(FieldNames[i], m, o), attr |-> a] :
     m \in {"none", "gives None", "raises"}, o \in BOOLEAN, a \in {"None", "1", "unset"}}
Structures ==
  UNION {{obj \in [1..n -> UNION {FieldOf(i) : i \in 1..n}] :
            \A i \in 1..n : obj[i] \in FieldOf(i)} : n \in 1..MaxFields}

InitMarshal ==
  /\ NewSession /\ NewConnection
  /\ value = Zero /\ snowflake = NotMade /\ args \in Structures /\ returned = <<>>

InitDecoder == NewSession /\ NoValues /\ \E bs \in HeaderBytes : UpgradedBytes(bs)

\* ------------------------------------------------------------ specifications
Burst ==
  \E t \in DOMAIN bursts :
    \/ BurstStart(t)
    \/ BurstLocked(t)
    \/ BurstReady(t)
    \/ BurstYield(t)
    \/ BurstHeaders(t)
    \/ BurstWake(t)
    \/ BurstCancelled(t)

Callbacks ==
  \E r \in DOMAIN reqs :
    \/ \E which \in {"w", "raw"} : TaskDone(r, which)
    \/ RetryReturn(r)

Http ==
  \E r \in DOMAIN reqs :
    \/ \E lim \in LimitHdrs, rem \in RemainingHdrs, rst \in ResetHdrs :
         RespOk(r, lim, rem, rst)
    \/ Resp429(r)
    \/ \E ra \in RetryAfters : BodyRead(r, ra)
    \/ RespError(r)
    \/ \E st \in {"ok", "429"} : RawResp(r, st)
    \/ RawError(r)

\* as Http, every response that is not a 429 being logged
HttpLogged ==
  \E r \in DOMAIN reqs :
    \/ \E lim \in LimitHdrs, rem \in RemainingHdrs, rst \in ResetHdrs :
         RespLogged(r, lim, rem, rst)
    \/ Resp429(r)
    \/ \E ra \in RetryAfters : BodyRead(r, ra)
    \/ RespError(r)
    \/ \E st \in {"ok", "429"} : RawResp(r, st)
    \/ RawError(r)

Server ==
  \E r \in DOMAIN reqs : SrvOk(r) \/ Srv429(r) \/ SrvBody(r) \/ SrvRaw(r)

Internal == Burst \/ Http \/ Callbacks \/ Tick

\* one bucket
SubmitOne == Len(reqs) < MaxReq /\ Submit(1)

\* several buckets
SubmitAny == Len(reqs) < MaxReqB /\ \E i \in DOMAIN Routes : Submit(i)

\* one bucket, against the server
SubmitServer == Len(reqs) < MaxReqW /\ Submit(1)

Next == SubmitOne \/ Internal

NextBuckets == SubmitAny \/ Internal

\* one bucket, enough requests for a 429 to reach a burst task anywhere
SubmitMore == Len(reqs) < MaxReqC /\ Submit(1)

NextBurst == SubmitMore \/ Internal

\* The same program, the body of a 429 being any text.
BadBody == \E r \in DOMAIN reqs, body \in BadBodies : BadBodyRead(r, body)

NextBody == SubmitOne \/ Internal \/ BadBody

SpecBody == Init /\ [][NextBody]_vars

NextLogged == SubmitOne \/ Burst \/ HttpLogged \/ Callbacks \/ Tick

\* user code calls any route, with any path parameters
SubmitCall == Len(reqs) < MaxReqB /\ \E i \in DOMAIN AllRoutes : Submit(i)

NextRegistry == SubmitCall \/ Internal

NextServer == SubmitServer \/ Burst \/ Server \/ Callbacks \/ Tick

\* one bucket, the caller cancelling futures
Cancels == \E r \in DOMAIN reqs : FutureCancel(r)

NextCancel == SubmitOne \/ Internal \/ Cancels

Spec == Init /\ [][Next]_vars

SpecBuckets == Init /\ [][NextBuckets]_vars

SpecServer == Init /\ [][NextServer]_vars

SpecCancel == Init /\ [][NextCancel]_vars

SpecRegistry == Init /\ [][NextRegistry]_vars

SpecBurst == Init /\ [][NextBurst]_vars

SpecLogged == Init /\ [][NextLogged]_vars

SpecSnowflake == InitSnowflake /\ [][NewSnowflake]_vars

\* The event loop runs every task that can run, and the clock advances.
FairSpec == Spec /\ WF_vars(Internal)

\* the transport delivers what the server sent, in reads of any size
Transport == \E k \in 1..Len(wire) : DataReceived(k)

SpecFrame == InitFrame /\ [][Transport]_vars

SpecStream == InitStream /\ [][Transport]_vars

SpecDecoder == InitDecoder /\ [][Transport]_vars

SpecEncoder == InitEncoder /\ [][CreateFrameCall]_vars

SpecMarshal == InitMarshal /\ [][ToDictCall]_vars

SpecHandshake == InitHandshake /\ [][Transport \/ Connect]_vars

\* the gateway sends HELLO and HEARTBEAT_ACK messages; the loop runs the
\* heartbeat tasks and timers
Gateway == Hello \/ HeartbeatAck

Beats == \E b \in DOMAIN beats : SendHeartbeat(b) \/ WaitAcked(b) \/ WaitTimeout(b)

Timers == \E h \in DOMAIN handles : TimerFire(h)

NextHeartbeat == Gateway \/ Beats \/ Timers

SpecHeartbeat == Init /\ [][NextHeartbeat]_vars

\* The gateway acks every heartbeat in time, so that no wait times out; the
\* loop runs every task and timer that can run.
BeatsAcked == \E b \in DOMAIN beats : SendHeartbeat(b) \/ WaitAcked(b)

NextAcked == Hello \/ AckInTime \/ BeatsAcked \/ Timers \/ Tick

SpecAcked ==
  /\ Init
  /\ [][NextAcked]_vars
  /\ WF_vars(AckInTime)
  /\ WF_vars(BeatsAcked)
  /\ WF_vars(Timers)

\* ------------------------------------------------------------------ claims
Objects == DOMAIN rl
Requests == DOMAIN reqs

\* the do_burst tasks of Ratelimiter o that have neither finished nor been cancelled
LiveBursts(o) ==
  {t \in DOMAIN bursts : bursts[t].rl = o /\ bursts[t].pc \notin {"done", "cancelled"}}

\* the HTTP response behind the value of the caller's future: the result of
\* the _request task, or of the re-submitted task it returned
FutResponse(q) == IF q.wres = "rtask" THEN q.rres ELSE q.wres

\* a 429 or a transport failure has happened
Disturbed ==
  \E r \in Requests : reqs[r].w \in {"body", "retry", "failed"} \/ reqs[r].raw # "none"

\* request r, or a request not yet submitted
Req(r) == IF r \in Requests THEN reqs[r] ELSE [NewReq(0, 0, FALSE) EXCEPT !.w = "unsubmitted"]

\* C1: the entries of a bucket are popped and dispatched in the order in
\* which Ratelimiter.request enqueued them: the dispatch log is a prefix of
\* the submission log, and the queue is the rest of it.
C1_BucketFifo ==
  \A o \in Objects : submitted[o] = dispatched[o] \o rl[o].queue

\* three entries were dispatched, a re-submitted one among them
C1_Witness ==
  \E o \in Objects :
    /\ Len(dispatched[o]) >= 3
    /\ \E k \in 1..Len(dispatched[o]) : dispatched[o][k][2] = "raw"

\* C2: once the server has advertised the remaining requests of a window,
\* no more than that many requests are dispatched before the window ends.
C2_WindowBudget == \A o \in Objects : srv[o].sent <= srv[o].budget

\* C3: a request that received a 429 is dispatched again and the future of
\* its submitter completes.
C3_Recovers ==
  \A r \in 1..MaxReq :
    [](Req(r).w = "body"
         => <>(Req(r).raw \in {"http", "done", "failed"} /\ Req(r).fut = "result"))

\* C4: when no 429 and no transport failure happens, the future of every
\* submitted request is eventually resolved.
C4_FutureResolves ==
  \A r \in 1..MaxReq :
    [](Req(r).w # "unsubmitted" => <>(Disturbed \/ Req(r).fut = "result"))

\* C4, the value: a resolved future holds the response of its request.
C4_ResolvedWithResponse ==
  \A r \in Requests : reqs[r].fut = "result" => reqs[r].futval = "response"

\* C5: the future of a submitter is never resolved with a 429 response.
C5_Never429 ==
  \A r \in Requests : reqs[r].fut = "result" => FutResponse(reqs[r]) # "429"

\* C6: when the HTTP operation of a request fails, the future of the
\* submitter completes in a failed state, not with a result.
C6_FailurePropagates ==
  \A r \in Requests :
    reqs[r].w = "failed" /\ reqs[r].fut # "pending" => reqs[r].fut = "exception"

\* C7: at most one do_burst task exists per bucket.
C7_OneBurstTask == \A o \in Objects : Cardinality(LiveBursts(o)) <= 1

\* C8: the remaining of a bucket is never below 0.
C8_RemainingNonNegative == \A o \in Objects : rl[o].remaining >= 0

\* the bucket of a route: its method and its guild, channel and webhook
\* parameters, an absent one counting as the null token
RouteBucket(i) ==
  <<AllRoutes[i].meth, Fmt(AllRoutes[i].pp, "guild_id"),
    Fmt(AllRoutes[i].pp, "channel_id"), Fmt(AllRoutes[i].pp, "webhook_id")>>

\* the Ratelimiters a step acted for: those of the requests and do_burst
\* tasks it created or changed
Acted ==
  {reqs'[r].rl : r \in {x \in DOMAIN reqs' : x \notin Requests \/ reqs'[x] # reqs[x]}}
  \cup {bursts'[t].rl :
          t \in {x \in DOMAIN bursts' : x \notin DOMAIN bursts \/ bursts'[x] # bursts[x]}}

\* C9: requests to distinct buckets use distinct Ratelimiters, and a step
\* taken for one Ratelimiter leaves the state and the do_burst tasks of every
\* other one unchanged.
C9_BucketsIndependent ==
  /\ [](\A r, q \in Requests :
          RouteBucket(reqs[r].route) # RouteBucket(reqs[q].route)
            => reqs[r].rl # reqs[q].rl)
  /\ [][\A a \in Acted : \A p \in Objects \ {a} :
          /\ rl'[p] = rl[p]
          /\ \A t \in DOMAIN bursts : bursts[t].rl = p => bursts'[t] = bursts[t]]_vars

\* the drainer of one bucket is blocked with a request queued, and a request
\* submitted later to another bucket has completed
C9_Witness ==
  \E r, q \in Requests :
    /\ r < q
    /\ reqs[r].rl # reqs[q].rl
    /\ reqs[r].fut = "pending"
    /\ rl[reqs[r].rl].queue # <<>>
    /\ \E t \in LiveBursts(reqs[r].rl) : bursts[t].pc \in {"wait_ready", "wait_headers", "sleep"}
    /\ reqs[q].fut = "result"

\* the step in which the first request of a bucket is made
ColdStep(o) == ~rl[o].made_first_request /\ rl'[o].made_first_request

\* C10: the do_burst that makes the first request of a bucket dispatches the
\* head of the queue and nothing else, without having waited for headers or
\* slept, and ends; and, when no 429 and no transport failure happens, every
\* request submitted before that is eventually dispatched.
C10_ColdStart ==
  /\ [][\A o \in Objects : ColdStep(o) =>
          /\ dispatched'[o] = <<Head(submitted[o])>>
          /\ rl'[o].queue = Tail(rl[o].queue)
          /\ \E t \in DOMAIN bursts :
               /\ bursts[t].pc \in {"start", "lock"}
               /\ bursts'[t].pc = "done"
               /\ rl'[o].lockOwner # t]_vars
  /\ \A r \in 1..MaxReq :
       [](Req(r).cold => <>(Disturbed \/ Req(r).w # "queued"))

\* a request of bucket o whose future the caller cancelled
CancelledIn(o) == {r \in Requests : reqs[r].rl = o /\ reqs[r].fut = "cancelled"}

\* a step in which the caller cancels the future of request r
CancelStep(r) == reqs[r].fut = "pending" /\ reqs'[r].fut = "cancelled"

\* C11: cancelling the future of a submission changes nothing but the future
\* (the queue, the lock, the signal and the tasks of the bucket stay as they
\* are); the entries of a bucket with a cancelled future are still popped in
\* the order of submission, none is dropped, and each popped entry is started;
\* a cancelled future stays cancelled and never gets the result.
C11_CancelKeepsRequest ==
  /\ [][\A r \in Requests : CancelStep(r) =>
          /\ rl' = rl /\ bursts' = bursts
          /\ submitted' = submitted /\ dispatched' = dispatched
          /\ \A q \in Requests \ {r} : reqs'[q] = reqs[q]
          /\ reqs'[r].w = reqs[r].w /\ reqs'[r].raw = reqs[r].raw]_vars
  /\ [](\A o \in Objects : CancelledIn(o) # {} =>
          /\ submitted[o] = dispatched[o] \o rl[o].queue
          /\ \A k \in 1..Len(dispatched[o]) :
               dispatched[o][k][2] = "w" => reqs[dispatched[o][k][1]].w # "queued")
  /\ [][\A r \in Requests : reqs[r].fut = "cancelled" =>
          reqs'[r].fut = "cancelled" /\ reqs'[r].futval = "none"]_vars

\* the future of the first request was cancelled while the request was in
\* the queue; the request was dispatched and has completed, its task is no
\* longer kept, and the request submitted behind it has its result
C11_Witness ==
  /\ Len(reqs) >= 2
  /\ reqs[1].cq /\ reqs[1].fut = "cancelled" /\ reqs[1].w = "done"
  /\ <<1, "w">> \notin rl[reqs[1].rl].tasks
  /\ reqs[2].rl = reqs[1].rl /\ reqs[2].fut = "result"

\* the frame the decoder should push for the on-wire frame f: its first
\* byte and its payload
Sent(f) ==
  [fbyte |-> CreateFrame(f.data, f.opcode, f.fin, f.rsv1, f.rsv2, f.rsv3,
                         f.masking.masked, f.masking.mask)[1],
   data |-> f.data]

\* the frames the decoder should have pushed once everything was delivered
Expected == [k \in 1..Len(onwire.frames) |-> Sent(onwire.frames[k])]

\* C12: once the bytes create_frame produced for (payload, opcode, flags,
\* masked) were given to the receive state machine, exactly one frame was
\* pushed, with that payload and those FIN, RSV and opcode bits, and the
\* decoder is in WAITING_FBYTE with a new frame.
C12_FrameRoundTrip ==
  (Len(onwire.frames) = 1 /\ wire = <<>>) =>
    LET f == onwire.frames[1] IN
    /\ Len(frames) = 1
    /\ frames[1].data = f.data
    /\ (GetFin(frames[1].fbyte) # 0) = f.fin
    /\ (GetRsv1(frames[1].fbyte) # 0) = f.rsv1
    /\ (GetRsv2(frames[1].fbyte) # 0) = f.rsv2
    /\ (GetRsv3(frames[1].fbyte) # 0) = f.rsv3
    /\ GetOpcode(frames[1].fbyte) = f.opcode
    /\ protocol.state = "WAITING_FBYTE"
    /\ protocol.frame = NewFrame

\* C13: however the bytes of a stream of frames are split into reads, the
\* frames pushed so far are the first on-wire frames, in order and with their
\* payloads, and once every byte was delivered there is one per on-wire frame.
C13_FragmentedReceive ==
  /\ Len(frames) <= Len(Expected)
  /\ frames = SubSeq(Expected, 1, Len(frames))
  /\ wire = <<>> => frames = Expected

\* the response connect() reads: the one the server sent
Response == CHOOSE r \in Responses : ResponseBytes(r) = onwire.head

\* the first field of the response that connect() rejects, in the order
\* status code, connection, upgrade
Rejected(r) ==
  IF r.code # Code101 THEN "status code"
  ELSE IF LowerAll(r.connection) # upgrade_ THEN "connection"
  ELSE IF LowerAll(r.upgrade) # websocket THEN "upgrade"
  ELSE ""

\* C14: connect ends well exactly when the status is 101 and the Connection
\* and Upgrade headers are 'upgrade' and 'websocket' whatever their case;
\* otherwise it ends with the BadWsHttpResponse of the first rejected field,
\* also when that header is absent.
C14_UpgradeChecked ==
  upgrade # NoResult =>
    IF Rejected(Response) = "" THEN upgrade.result = "ok"
    ELSE upgrade.result = "BadWsHttpResponse" /\ upgrade.field = Rejected(Response)

\* every byte of the connection, and those data_received was given so far
Stream == onwire.head \o FramesBytes(onwire.frames)
Delivered == SubSeq(Stream, 1, Len(Stream) - Len(wire))

\* the frame state machine after it was given bytes b on a new connection
Decoded(b) == CreateFrames([NewProtocol EXCEPT !.have_headers = TRUE], b)

\* C15: the header block is complete as soon as the bytes received so far
\* contain \r\n\r\n, however they were split into reads; the header buffer
\* holds the bytes up to the terminator and nothing else, and the bytes
\* after it went to the frame state machine.
C15_HeadersComplete ==
  /\ protocol.have_headers <=> Index(Delivered) # -1
  /\ protocol.have_headers =>
       LET after == SubSeq(Delivered, Index(Delivered) + 5, Len(Delivered)) IN
       /\ protocol.headers = SubSeq(Delivered, 1, Index(Delivered) + 4)
       /\ protocol.state = Decoded(after).p.state
       /\ protocol.frame = Decoded(after).p.frame
       /\ frames = Decoded(after).ev

\* the frames of the stream are unmasked and carry a payload
Plain == \A k \in DOMAIN onwire.frames :
           ~onwire.frames[k].masking.masked /\ onwire.frames[k].data # <<>>

\* the payloads ws_frame_receive dispatches for the frames fs: those of the
\* TEXT frames that are valid JSON, in order
Dispatched(fs) ==
  LET text == SelectSeq(fs, LAMBDA f : GetOpcode(f.fbyte) = TEXT /\ JsonLoads(f.data))
  IN [k \in 1..Len(text) |-> text[k].data]

\* C19: a TEXT frame that is not valid JSON is dropped and the connection
\* lives on: every frame is emitted once, in order, the valid TEXT payloads
\* are dispatched in order, and after the last byte the decoder is in
\* WAITING_FBYTE with a fresh frame.
C19_BadJsonDropped ==
  Plain =>
    /\ ~closed
    /\ Len(frames) <= Len(Expected)
    /\ frames = SubSeq(Expected, 1, Len(frames))
    /\ received = Dispatched(frames)
    /\ wire = <<>> =>
         /\ frames = Expected
         /\ protocol.state = "WAITING_FBYTE"
         /\ protocol.frame = NewFrame

\* ------------------------------------------------------------ heartbeat claims
\* the heartbeats in flight: sent, and neither acked nor timed out
InFlight == {b \in DOMAIN beats : beats[b].pc = "wait_ack"}

\* C16: heartbeats_acked never exceeds heartbeats_sent, and never decreases.
C16_AckedAtMostSent ==
  /\ [](hb.heartbeats_acked <= hb.heartbeats_sent)
  /\ [][hb'.heartbeats_acked >= hb.heartbeats_acked]_vars

\* C17: at most one heartbeat is in flight, and a HEARTBEAT is written only
\* when none is, whatever messages arrive, a second HELLO included.
C17_OneInFlight ==
  /\ [](Cardinality(InFlight) <= 1)
  /\ [][shard'.heartbeats > shard.heartbeats => InFlight = {}]_vars

\* C18: a timeout stops the handler, leaves its current timer not pending
\* and emits connection_stale, once for the connection; once stopped, no
\* timer is scheduled and no HEARTBEAT is written, whatever arrives or fires.
C18_StaleStops ==
  /\ [][shard'.stale > shard.stale =>
          /\ hb'.stopped
          /\ shard'.stale = shard.stale + 1
          /\ hb.current_handle \in DOMAIN handles =>
               handles'[hb.current_handle].state # "pending"
          /\ Len(handles') = Len(handles)]_vars
  /\ [](shard.stale <= 1)
  /\ [](hb.stopped <=> shard.stale > 0)
  /\ [][hb.stopped =>
          /\ hb'.stopped
          /\ shard'.heartbeats = shard.heartbeats
          /\ Len(handles') = Len(handles)]_vars

\* the step in which ws_receive handles a HELLO
GotHello == shard'.hellos = shard.hellos + 1

\* the places of the frames with this opcode among the frames written
Written(op) == {i \in DOMAIN shard.written : shard.written[i].op = op}

\* C31: on a HELLO the shard sets heartbeat_interval to the interval of the
\* message, milliseconds turned into seconds, writes one IDENTIFY frame and
\* starts the heartbeat handler; IDENTIFY holds the shard field exactly when
\* the client is multi-sharded, and it is written before the first
\* HEARTBEAT.
C31_HelloIdentifies ==
  /\ [][GotHello =>
          LET frame == shard'.written[Len(shard'.written)] IN
          /\ hb'.heartbeat_interval * 1000 = shard'.hello.heartbeat_interval
          /\ Len(shard'.written) = Len(shard.written) + 1
          /\ frame.op = IDENTIFY
          /\ "shard" \in (frame.keys \cup frame.d) <=> shard'.hello.multi_sharded
          /\ Len(beats') = Len(beats) + 1
          /\ beats'[Len(beats')].pc = "start"]_vars
  /\ [](\A i \in Written(HEARTBEAT) : \E j \in Written(IDENTIFY) : j < i)

\* a multi-sharded client got a HELLO, and IDENTIFY and a HEARTBEAT were written
C31_Witness ==
  /\ shard.hello.multi_sharded
  /\ hb.heartbeat_interval = HelloInterval
  /\ Written(HEARTBEAT) # {}
  /\ \E i \in Written(IDENTIFY) : "shard" \in shard.written[i].keys

\* C32: while every heartbeat is acked in time, a wait that an ack ends
\* adds one to heartbeats_acked, records last_acked and schedules the next
\* heartbeat heartbeat_interval later; the handler is never stopped, every
\* ack is counted and after every ack a further heartbeat is sent.
C32_AckedForever ==
  /\ [][hb'.heartbeats_acked # hb.heartbeats_acked =>
          /\ hb'.heartbeats_acked = hb.heartbeats_acked + 1
          /\ hb'.last_acked = now
          /\ Len(handles') = Len(handles) + 1
          /\ handles'[Len(handles')] = [state |-> "pending", delay |-> hb.heartbeat_interval]]_vars
  /\ [](~hb.stopped)
  /\ \A n \in 1..MaxBeats :
        (shard.acks = n) ~> (hb.heartbeats_acked >= n /\ shard.heartbeats > n)

\* two heartbeats were acked and a third one was sent
C32_Witness ==
  /\ hb.heartbeats_acked >= 2
  /\ hb.last_acked = now
  /\ shard.heartbeats >= 3
  /\ ~hb.stopped

\* the heartbeats whose wait an ack has ended and that are not counted yet
Resolved == {b \in DOMAIN beats : beats[b].pc = "acked"}

\* the step in which a HEARTBEAT_ACK arrives while no heartbeat awaits its ack
UnsolicitedAck == shard'.acks = shard.acks + 1 /\ InFlight = {}

\* C38: heartbeats_acked never exceeds the number of HEARTBEAT frames
\* written, and a HEARTBEAT_ACK that arrives while no heartbeat awaits its
\* ack, unsolicited or after the timeout, adds nothing to it: every frame
\* written is counted as acked at most once, when its own wait was ended by
\* an ack.
C38_AckedAtMostWritten ==
  /\ [](hb.heartbeats_acked <= Cardinality(Written(HEARTBEAT)))
  /\ [](hb.heartbeats_acked + Cardinality(Resolved) + Cardinality(InFlight) + shard.stale
          = Cardinality(Written(HEARTBEAT)))
  /\ [][UnsolicitedAck => hb' = hb /\ beats' = beats /\ handles' = handles]_vars

\* one heartbeat was written and acked, and a second ack has arrived for it
C38_Witness ==
  /\ Cardinality(Written(HEARTBEAT)) = 1
  /\ hb.heartbeats_acked = 1
  /\ shard.acks = 2

\* the do_burst tasks of Ratelimiter o suspended inside "async with self.lock"
InLockedSection(o) ==
  {t \in DOMAIN bursts :
     bursts[t].rl = o /\ bursts[t].pc \in {"wait_ready", "yield", "wait_headers", "sleep"}}

\* a step of do_burst task t that runs code of the locked section
RunsLocked(t) ==
  /\ bursts[t].pc \in {"start", "lock", "wait_ready", "yield", "wait_headers", "sleep"}
  /\ bursts'[t].pc \in {"wait_ready", "yield", "wait_headers", "sleep", "done"}

\* C39: at most one do_burst task of a bucket is inside the locked section at
\* any instant, and it is the owner of the lock; a step that runs code of the
\* section (the first_request_done test, a wait, a sleep, the decrement and
\* the pop) is taken while no other task of the bucket is inside.
C39_OneDrainInside ==
  /\ [](\A o \in Objects :
          /\ Cardinality(InLockedSection(o)) <= 1
          /\ \A t \in InLockedSection(o) : rl[o].lockOwner = t)
  /\ [][\A t \in DOMAIN bursts :
          RunsLocked(t) => InLockedSection(bursts[t].rl) \subseteq {t}]_vars

\* three do_burst tasks of one bucket are alive: one is inside the locked
\* section, the others wait for the lock
C39_Witness ==
  \E o \in Objects :
    /\ Cardinality(InLockedSection(o)) = 1
    /\ Cardinality({t \in LiveBursts(o) : bursts[t].pc = "lock"}) >= 2

\* ------------------------------------------------------------ registry claims
\* the Ratelimiters in the registry
Registered == {ratelimiters[k] : k \in DOMAIN ratelimiters}

\* the request a step submits, 0 when it submits none
Submitted == IF Len(reqs') > Len(reqs) THEN Len(reqs') ELSE 0

\* C20: the registry only grows: no step removes or replaces an entry; a
\* submission creates a Ratelimiter exactly when no earlier request had its
\* bucket, and then adds that one entry; requests of the same bucket share
\* their Ratelimiter and requests of different buckets do not.
C20_RegistryGrows ==
  /\ [][\A k \in DOMAIN ratelimiters :
          k \in DOMAIN ratelimiters' /\ ratelimiters'[k] = ratelimiters[k]]_vars
  /\ [][Submitted = 0 => ratelimiters' = ratelimiters]_vars
  /\ [][Submitted # 0 =>
          LET seen == \E q \in Requests :
                        RouteBucket(reqs[q].route) = RouteBucket(reqs'[Submitted].route)
          IN IF seen THEN ratelimiters' = ratelimiters
             ELSE /\ Cardinality(DOMAIN ratelimiters') = Cardinality(DOMAIN ratelimiters) + 1
                  /\ reqs'[Submitted].rl \in Registered' \ Registered]_vars
  /\ [](\A r, q \in Requests :
          RouteBucket(reqs[r].route) = RouteBucket(reqs[q].route)
            <=> reqs[r].rl = reqs[q].rl)
  /\ [](\A r \in Requests : reqs[r].rl \in Registered)

\* a request was submitted to the bucket of an earlier, completed request
\* of another route, and found its Ratelimiter in the registry
C20_Witness ==
  \E r, q \in Requests :
    /\ r < q
    /\ reqs[r].route # reqs[q].route
    /\ RouteBucket(reqs[r].route) = RouteBucket(reqs[q].route)
    /\ reqs[r].fut = "result"
    /\ reqs[q].rl = reqs[r].rl
    /\ Cardinality(DOMAIN ratelimiters) = 1

\* ------------------------------------------------------------ 429 claims
\* the step in which request r receives a 429, and the one in which its
\* handler, having read the body, forces the state and re-submits
Got429(r) == reqs[r].w = "http" /\ reqs'[r].w = "body"
Resubmits(r) == reqs[r].w = "body" /\ reqs'[r].w = "retry"

CancelRequested(t) == ~bursts[t].must_cancel /\ bursts'[t].must_cancel
Exits(t) == bursts[t].pc # "cancelled" /\ bursts'[t].pc = "cancelled"

\* C23: only the 429 handler of a request of the bucket cancels a burst
\* task; when the cancelled task exits the queue is left as it is and
\* current_burst_task is null, so that a submission made once it has exited
\* starts a new burst task.
C23_CancelledBurstRestarts ==
  /\ [][\A t \in DOMAIN bursts :
          CancelRequested(t) =>
            \E r \in Requests : Got429(r) /\ reqs[r].rl = bursts[t].rl]_vars
  /\ [][\A t \in DOMAIN bursts :
          Exits(t) =>
            /\ rl'[bursts[t].rl].queue = rl[bursts[t].rl].queue
            /\ rl'[bursts[t].rl].current_burst_task = 0]_vars
  /\ [][\A o \in Objects :
          /\ Len(submitted'[o]) > Len(submitted[o])
          /\ LiveBursts(o) = {}
          /\ \E t \in DOMAIN bursts : bursts[t].rl = o /\ bursts[t].pc = "cancelled"
          => Len(bursts') > Len(bursts)]_vars

CancelledAt(x) == {t \in DOMAIN bursts : bursts[t].pc = "cancelled" /\ bursts[t].at = x}

SlotStale(o) ==
  /\ rl[o].current_burst_task # 0
  /\ bursts[rl[o].current_burst_task].pc \in {"done", "cancelled"}

\* C35: once the first request of a bucket has been made, a non-empty queue
\* has a do_burst task that has neither finished nor been cancelled, and the
\* burst-task slot never holds a finished or cancelled task.
C35_NoStrandedRequests ==
  \A o \in Objects :
    /\ rl[o].made_first_request /\ rl[o].queue # <<>> => LiveBursts(o) # {}
    /\ ~SlotStale(o)

\* a dispatched request failed with a transport error; a response arrived
TransportFailed == \E r \in Requests : reqs[r].w = "failed"
Responded == \E r \in Requests : reqs[r].w \in {"done", "body", "retry"}

\* C36: after a dispatched request failed with a transport error, every
\* request in the queue, submitted before or after, is eventually
\* dispatched, a drainer waiting for the first headers included; no
\* response of another request is needed for that.
C36_LiveAfterFailure ==
  \A r \in 1..MaxReq :
    [](TransportFailed /\ Req(r).w = "queued" => <>(Req(r).w # "queued" \/ Responded))

\* the entries popped from the queue of Ratelimiter o; the task of an entry
\* was started; the future of the submitter of an entry
Popped(o) == {dispatched[o][k] : k \in DOMAIN dispatched[o]}
Started(e) ==
  IF e[2] = "w" THEN reqs[e[1]].w # "queued" ELSE reqs[e[1]].raw \notin {"none", "queued"}
FutureOf(e) == IF e[2] = "w" THEN reqs[e[1]].fut ELSE reqs[e[1]].ifut

\* C37: an entry is popped from the queue at most once and each pop starts
\* the task of the entry; the tasks kept in _tasks are those of the popped
\* entries whose submitter's future is not completed yet, a task leaving
\* _tasks exactly when that future is completed.
C37_DispatchedOnce ==
  \A o \in Objects :
    /\ Cardinality(Popped(o)) = Len(dispatched[o])
    /\ \A e \in Popped(o) : Started(e)
    /\ \A k \in DOMAIN rl[o].queue : ~Started(rl[o].queue[k])
    /\ rl[o].tasks = {e \in Popped(o) : FutureOf(e) = "pending"}

\* the step in which the task of entry e leaves _tasks of Ratelimiter o
Leaves(o, e) == e \in rl[o].tasks /\ e \notin rl'[o].tasks

\* C37, amended: an entry is popped at most once and each pop starts the
\* task of the entry; a popped entry whose future is pending has its task in
\* _tasks, one whose future has its result has not, and a task leaves _tasks
\* only when it has ended, in the step that completes the future of its
\* submitter or, when the caller had cancelled that future, leaves it
\* cancelled.
C37_DispatchedOnceUnlessCancelled ==
  /\ [](\A o \in Objects :
          /\ Cardinality(Popped(o)) = Len(dispatched[o])
          /\ \A k \in DOMAIN rl[o].queue : ~Started(rl[o].queue[k])
          /\ rl[o].tasks \subseteq Popped(o)
          /\ \A e \in Popped(o) :
               /\ Started(e)
               /\ FutureOf(e) = "pending" => e \in rl[o].tasks
               /\ FutureOf(e) = "result" => e \notin rl[o].tasks
               /\ e \notin rl[o].tasks => Finished(reqs[e[1]], e[2]))
  /\ [][\A o \in Objects : \A e \in rl[o].tasks :
          Leaves(o, e) =>
            \/ FutureOf(e) = "pending" /\ FutureOf(e)' = "result"
            \/ FutureOf(e) = "cancelled" /\ FutureOf(e)' = "cancelled"]_vars

\* a task whose future the caller had cancelled has left _tasks, and the
\* task of an entry with a pending future is kept
C37_Witness ==
  \E o \in Objects : \E e, f \in Popped(o) :
    /\ FutureOf(e) = "cancelled" /\ e \notin rl[o].tasks
    /\ FutureOf(f) = "pending" /\ f \in rl[o].tasks

\* ------------------------------------------------------------ header claims
\* the step in which the _request task of r gets a response that is not a 429
Answered(r) == reqs[r].w = "http" /\ reqs'[r].w = "done"

\* the value of a field after a response: that of the header, or the old one
After(h, old) == IF h = {} THEN old ELSE CHOOSE x \in h : TRUE

FindsNone(t) ==
  /\ bursts[t].pc = "yield"
  /\ bursts'[t].pc \notin {"yield", "cancelled"}
  /\ rl[bursts[t].rl].remaining <= 0
DispatchesAfterSleep(t) ==
  /\ bursts[t].pc = "sleep"
  /\ bursts'[t].pc \notin {"sleep", "cancelled"}

\* C26: a drainer that finds remaining <= 0 starts to wait and goes on only
\* when the headers signal is raised after that, a signal that was already
\* set when it began to wait being no fresh headers; and it dispatches only
\* when the clock has reached the reset of the bucket.
C26_FreshHeadersThenReset ==
  /\ [][\A t \in DOMAIN bursts :
          FindsNone(t) =>
            /\ ~rl[bursts[t].rl].new_headers
            /\ bursts'[t].pc = "wait_headers"]_vars
  /\ [][\A t \in DOMAIN bursts :
          bursts[t].pc = "wait_headers" /\ bursts'[t].pc \notin {"wait_headers", "cancelled"}
            => rl[bursts[t].rl].new_headers /\ bursts'[t].pc = "sleep"]_vars
  /\ [][\A t \in DOMAIN bursts :
          DispatchesAfterSleep(t) => now >= rl[bursts[t].rl].reset]_vars

\* the step in which the handler of request r leaves "await resp.text()"
\* with a body that holds no retry_after
ReadsBadBody(r) ==
  /\ reqs[r].w = "body"
  /\ reqs'[r].w # "body"
  /\ reqs'[r].body \in BadBodies

\* C27: a 429 whose body is no JSON or holds no retry_after is handled as
\* retry_after = 0: remaining becomes 0, reset becomes now, the headers
\* signal is raised and the request is submitted again; the handler does
\* not raise.
C27_BadBodyIsZero ==
  [][\A r \in DOMAIN reqs :
       ReadsBadBody(r) =>
         /\ reqs'[r].w = "retry"
         /\ rl'[reqs[r].rl].remaining = 0
         /\ rl'[reqs[r].rl].reset = now
         /\ rl'[reqs[r].rl].new_headers
         /\ Len(submitted'[reqs[r].rl]) = Len(submitted[reqs[r].rl]) + 1]_vars

\* ------------------------------------------------------------ decoder claims
\* the bytes a step hands to data_received
Read == SubSeq(wire, 1, Len(wire) - Len(wire'))

\* the header bytes of the frame at hand that the decoder has when the step
\* ends, the decoder being in a header state before it
Seen ==
  IF protocol.state = "WAITING_FBYTE" THEN <<>>
  ELSE IF protocol.state = "WAITING_SBYTE" THEN <<protocol.frame.fbyte>>
  ELSE <<protocol.frame.fbyte, protocol.frame.sbyte>> \o protocol.frame.length_buffer
FrameHeader == Seen \o Read

InHeader == protocol.state \in {"WAITING_FBYTE", "WAITING_SBYTE", "WAITING_LENGTH"}

\* the decoder after the step
Waits(state, n) == protocol'.state = state /\ protocol'.frame.bytes_needed = n

\* C28: when a read ends with the second header byte, of length code c (its
\* low 7 bits), the decoder is in WAITING_DATA with bytes_needed = c for
\* c <= 125, in WAITING_LENGTH with bytes_needed = 2 for c = 126 and 8 for
\* c = 127; when a read ends with the last length byte the decoder is in
\* WAITING_DATA with bytes_needed the big-endian value of the length bytes.
\* The mask bit of the second byte changes none of this.
C28_HeaderTransitions ==
  [][InHeader /\ Len(FrameHeader) >= 2 =>
       LET c == FrameHeader[2] % 128
           size == IF c = SmallLen + 1 THEN 2 ELSE 8
       IN /\ Len(FrameHeader) = 2 /\ c <= SmallLen => Waits("WAITING_DATA", c)
          /\ Len(FrameHeader) = 2 /\ c = SmallLen + 1 => Waits("WAITING_LENGTH", 2)
          /\ Len(FrameHeader) = 2 /\ c = SmallLen + 2 => Waits("WAITING_LENGTH", 8)
          /\ c > SmallLen /\ Len(FrameHeader) = 2 + size =>
               Waits("WAITING_DATA", FromBytes(SubSeq(FrameHeader, 3, 2 + size)))]_vars

\* a masked header with code 127 and eight length bytes was read, its length
\* one that two bytes cannot hold
C28_Witness ==
  /\ protocol.state = "WAITING_DATA"
  /\ protocol.frame.sbyte = 128 + SmallLen + 2
  /\ Len(protocol.frame.length_buffer) = 8
  /\ protocol.frame.bytes_needed = ShortLen + 1

\* C29: when data_received returns, a frame whose last byte was delivered
\* has been pushed and the decoder waits for a first byte again, whatever
\* the length of the payload, 0 included: the decoder is never left in
\* WAITING_DATA with bytes_needed = 0.
C29_NoEmptyWait ==
  ~(protocol.state = "WAITING_DATA" /\ protocol.frame.bytes_needed = 0)

\* the frames a step pushes as ws_frame_receive, and the TEXT frames of them
NewFrames == SubSeq(frames', Len(frames) + 1, Len(frames'))
IsText(f) == GetOpcode(f.fbyte) = TEXT
TextFrames == SelectSeq(NewFrames, IsText)

\* C30: every frame the decoder pushes gives one ws_receive event when its
\* opcode is TEXT and none otherwise; frames that are not TEXT change
\* nothing of the shard or the heartbeat handler and send nothing.
C30_OneReceivePerText ==
  [][/\ Len(received') = Len(received) + Len(TextFrames)
     /\ TextFrames = <<>> => UNCHANGED <<received, hb, beats, handles, shard>>]_vars

\* ------------------------------------------------------------ encoder claims
\* the frame create_frame returned: the low 7 bits of its second byte, the
\* bytes of its extended length and what follows them
LengthCode == returned[2] % 128
ExtendedSize == IF LengthCode = SmallLen + 1 THEN 2 ELSE IF LengthCode = SmallLen + 2 THEN 8 ELSE 0
Extended == SubSeq(returned, 3, 2 + ExtendedSize)
AfterLength == SubSeq(returned, 3 + ExtendedSize, Len(returned))
Unsigned(b) == IF b = <<>> THEN 0 ELSE FromBytes(b)

\* C33: for a payload of n bytes the second byte of the frame holds n and no
\* length bytes follow when n <= 125; it holds 126, followed by n in 2 bytes
\* big-endian, when 126 <= n <= 0xFFFF, and 127, followed by n in 8 bytes
\* big-endian, when n > 0xFFFF. The mask bit is set and a 4-byte key comes
\* before the payload XORed with it exactly when masked is true; otherwise
\* the payload follows as it is.
C33_LengthForm ==
  returned # <<>> =>
    LET n == Len(args.data)
        key == SubSeq(AfterLength, 1, 4)
        masked_data == SubSeq(AfterLength, 5, Len(AfterLength))
    IN /\ n <= SmallLen => LengthCode = n
       /\ n > SmallLen /\ n <= ShortLen => LengthCode = SmallLen + 1
       /\ n > ShortLen => LengthCode = SmallLen + 2
       /\ n > SmallLen => Unsigned(Extended) = n
       /\ returned[2] >= 128 <=> args.masking.masked
       /\ ~args.masking.masked => AfterLength = args.data
       /\ args.masking.masked =>
            /\ key = args.masking.mask
            /\ Len(masked_data) = n
            /\ \A i \in 1..n : masked_data[i] = Xor(args.data[i], key[((i - 1) % 4) + 1])

\* a masked frame of 0xFFFF bytes, the largest the 2-byte form holds
C33_Witness ==
  /\ returned # <<>>
  /\ Len(args.data) = ShortLen
  /\ args.masking.masked
  /\ LengthCode = SmallLen + 1

\* ------------------------------------------------------------ marshalling claims
\* the keys of the dict to_dict returned
Keys == {item[1] : item \in returned.dct}

\* C34: to_dict leaves out a field whose value is None when the field was
\* declared omit-empty, holds it with a null value when it was not, and
\* holds every field whose value is not None.
C34_OmitEmpty ==
  returned # <<>> =>
    \A i \in DOMAIN args :
      LET name == args[i].field.name
          declared == args[i].field.omitempty
          attr == args[i].attr
      IN /\ attr = "None" /\ declared => name \notin Keys
         /\ attr = "None" /\ ~declared => <<name, "None">> \in returned.dct
         /\ attr = "1" => name \in Keys

\* ------------------------------------------------------------ Snowflake claims
\* the magnitude of n is at least 2^50, and below 2^111
AtLeastMinimum(n) == Len(n.digits) > 2 \/ (Len(n.digits) = 2 /\ n.digits[2] >= 2^20)
BelowMaximum(n) == Len(n.digits) < 4 \/ (Len(n.digits) = 4 /\ n.digits[4] < 2^21)

\* C21: Snowflake(value) gives a Snowflake of that value exactly when the
\* bit length of value is within 51..111, that is 2^50 <= |value| < 2^111,
\* and fails with ValueError, making nothing, for every other integer.
C21_SnowflakeBitLength ==
  snowflake # NotMade =>
    IF AtLeastMinimum(value) /\ BelowMaximum(value)
    THEN snowflake = [result |-> "Snowflake", value |-> value]
    ELSE snowflake = [result |-> "ValueError", value |-> Zero]

\* a Snowflake was made of an integer of 111 bits
C21_Witness ==
  /\ Len(value.digits) = 4
  /\ value.digits[4] = 2^21 - 1
  /\ snowflake.result = "Snowflake"

====
